---------------------------- MODULE Spec2Model ----------------------------
(***************************************************************************)
(* PyLabware device drivers: the reply framing helper (parsers.stripper),  *)
(* the status/error decoding of the Cadent 3 syringe pump and the Kern     *)
(* KDP3000 balance, and the shared serial-connection registry of the       *)
(* Cadent 3 pumps (Cadent3SyringePump.BUS_DEVICES), and the operations of  *)
(* one connected Cadent 3 pump: argument validation, command framing,      *)
(* readiness polling and the autorun setting.                              *)
(*                                                                         *)
(* A Python str is a sequence of character codes (ord values), so that     *)
(* slicing, startswith/endswith, split and ord() are computed as Python    *)
(* computes them.  The Python value None, where a str is optional, is the  *)
(* one-element sequence <<-1>>, which is no str (no character has a        *)
(* negative code).                                                         *)
(***************************************************************************)
EXTENDS Integers, Sequences, FiniteSets, TLC

VARIABLES
    \* ---- parsers.stripper, applied to drawn inputs
    sReply,        \* the reply handed to stripper
    sPrefix,       \* its prefix argument (a str or None)
    sSuffix,       \* its suffix argument (a str or None)
    sPayload,      \* the payload the reply was framed from, NoPayload if it was not
    sResult,       \* what stripper returned, NotRun before the call
    \* ---- one reply decoded by a driver's parse_reply
    dDevice,       \* the driver the reply is for: "cadent3" or "kdp3000"
    dCmd,          \* the command definition the reply answers
    dBody,         \* reply.body as the transport returned it
    dSent,         \* what the device put in the reply: its status indicator and payload
    last_status,   \* Cadent3SyringePump._last_status
    dOut,          \* the outcome of parse_reply, NoOutcome before the call
    \* ---- Cadent 3 pumps sharing serial ports
    BUS_DEVICES,   \* Cadent3SyringePump.BUS_DEVICES: port -> [pumps, conn]
    pumpState,     \* per pump object: "none" (not constructed), "live", "failed"
    pumpPort,      \* self.port
    connection,    \* self.connection: the connection object the pump holds
    connOpen,      \* per connection object: is_connection_open()
    pc,            \* per pump: where its thread stands inside a call ("idle": in none)
    current_refs,  \* per pump: the reference count its running call has read
    entry_read,    \* per pump: the registry entry (dict object) its running call holds
    \* ---- history of the calls made, for stating the claims
    connected,     \* the pumps that have called connect()
    disconnected,  \* the pumps that completed a disconnect() that unbound them
    opens,         \* per port: how often a transport of it was opened
    closes,        \* per port: how often a transport of it was closed
    orderly,       \* per port: calls so far were construct/connect, then one disconnect each
    binds,         \* per port: constructor calls that returned a pump
    unbinds,       \* per port: disconnect() calls that found the connection open and returned
    lastCall,      \* the call that ended last
    \* ---- the operations of one connected pump (switch address "1")
    command_terminator,  \* self.command_terminator: "R\r" (autorun) or "\r"
    wire,          \* the frames the running (or last) call wrote to the transport
    opCall,        \* the running (or last) call: operation, argument, autorun before it
    opOut,         \* the outcome of the last call that ended, NoOutcome before
    plan,          \* what the running call has still to do, in order
    phase,         \* "idle": no call running; "waiting": polling; "ready": wait over
    attempts,      \* status polls made by the running wait
    observed,      \* what the device last reported to a status poll of the call
    cmdReply,      \* what the transport answered to the command the call issued
    \* ---- command/reply exchanges of the pumps on their connections
    line,          \* per connection object: the replies not yet read, each the
                   \* pump whose command it answers, oldest first
    got,           \* per pump: the pump whose command its last read reply answers
    sends,         \* per pump: the exchanges it has started
    \* ---- simulation mode
    simulation,    \* per pump: device.simulation
    invoked,       \* per pump: the transport methods its operations have invoked
    simCall        \* the last operation called on a pump

varsStrip == <<sReply, sPrefix, sSuffix, sPayload, sResult>>

varsDecode == <<dDevice, dCmd, dBody, dSent, last_status, dOut>>

varsBus == <<BUS_DEVICES, pumpState, pumpPort, connection, connOpen, pc,
             current_refs, entry_read, connected, disconnected, opens, closes, orderly,
             binds, unbinds, lastCall>>

varsOps == <<command_terminator, wire, opCall, opOut, plan, phase, attempts, observed,
            cmdReply>>

varsShare == <<line, got, sends>>
varsSim == <<simulation, invoked, simCall>>

vars == <<sReply, sPrefix, sSuffix, sPayload, sResult,
          dDevice, dCmd, dBody, dSent, last_status, dOut,
          BUS_DEVICES, pumpState, pumpPort, connection, connOpen, pc,
          current_refs, entry_read, connected, disconnected, opens, closes, orderly,
          binds, unbinds, lastCall,
          command_terminator, wire, opCall, opOut, plan, phase, attempts, observed,
          cmdReply, line, got, sends, simulation, invoked, simCall>>

-----------------------------------------------------------------------------
(* Bounds of the model *)

\* longest framing string / payload drawn for stripper
MaxLen == 2

-----------------------------------------------------------------------------
(* Python str and list helpers *)

None == <<-1>>

\* s[a:b] for 0 <= a, b (Python slice with non-negative bounds)
Slice(s, a, b) == SubSeq(s, a + 1, IF b > Len(s) THEN Len(s) ELSE b)

\* reply.startswith(prefix)
StartsWith(s, p) == Len(p) <= Len(s) /\ SubSeq(s, 1, Len(p)) = p

\* reply.endswith(suffix)
EndsWith(s, p) == Len(p) <= Len(s) /\ SubSeq(s, Len(s) - Len(p) + 1, Len(s)) = p

\* s[:-n]: Python reads -0 as 0, so s[:-0] is s[:0], the empty str
SliceToMinus(s, n) == IF n = 0 THEN <<>> ELSE Slice(s, 0, Len(s) - n)

\* s[n:]
SliceFrom(s, n) == SubSeq(s, n + 1, Len(s))

-----------------------------------------------------------------------------
(* parsers.stripper *)

\* a plausible slip: the prefix is cut off without looking whether it is there
stripper_NoStartCheck(reply, prefix, suffix) ==
    LET r1 == IF prefix # None THEN SliceFrom(reply, Len(prefix)) ELSE reply
        r2 == IF suffix # None /\ EndsWith(r1, suffix)
              THEN SliceToMinus(r1, Len(suffix)) ELSE r1
    IN  r2

stripper(reply, prefix, suffix) ==
    LET r1 == IF prefix # None /\ StartsWith(reply, prefix)
              THEN SliceFrom(reply, Len(prefix)) ELSE reply
        r2 == IF suffix # None /\ EndsWith(r1, suffix)
              THEN SliceToMinus(r1, Len(suffix)) ELSE r1
    IN  r2

\* the characters framing strings and payloads are drawn from: "/" and "0"
StripAlphabet == {47, 48}

RECURSIVE StrUpTo(_)
StrUpTo(n) == IF n = 0 THEN {<<>>}
              ELSE StrUpTo(n - 1) \cup
                   {Append(s, c) : s \in {t \in StrUpTo(n - 1) : Len(t) = n - 1},
                                   c \in StripAlphabet}

NoPayload == <<-2>>
NotRun == <<-3>>

\* a reply as the device frames it: reply_prefix + payload + reply_terminator
Frame(prefix, payload, terminator) == prefix \o payload \o terminator

StripInit ==
    /\ sPrefix \in StrUpTo(MaxLen) \cup {None}
    /\ sSuffix \in StrUpTo(MaxLen) \cup {None}
    /\ \/ /\ sReply \in StrUpTo(MaxLen + 1)
          /\ sPayload = NoPayload
       \/ /\ sPrefix # None /\ sSuffix # None
          /\ sPayload \in StrUpTo(MaxLen)
          /\ sReply = Frame(sPrefix, sPayload, sSuffix)
    /\ sResult = NotRun

StripIdle ==
    /\ sReply = <<>> /\ sPrefix = None /\ sSuffix = None
    /\ sPayload = NoPayload /\ sResult = NotRun

\* one call stripper(reply, prefix, suffix)
CallStripper ==
    /\ sResult = NotRun
    /\ sResult' = stripper(sReply, sPrefix, sSuffix)
    /\ UNCHANGED <<sReply, sPrefix, sSuffix, sPayload>>
    /\ UNCHANGED <<varsDecode, varsBus, varsOps, varsShare, varsSim>>

StripNext == CallStripper

\* the first index of character c in s, 0 when there is none
RECURSIVE IndexOf(_, _, _)
IndexOf(s, c, from) == IF from > Len(s) THEN 0
                       ELSE IF s[from] = c THEN from ELSE IndexOf(s, c, from + 1)

\* str.split(s, sep) for a one-character separator
RECURSIVE Split(_, _)
Split(s, sep) == LET i == IndexOf(s, sep, 1) IN
                 IF i = 0 THEN <<s>>
                 ELSE <<SubSeq(s, 1, i - 1)>> \o Split(SubSeq(s, i + 1, Len(s)), sep)

\* str.upper(s) on ASCII
Upper(s) == [i \in 1..Len(s) |-> IF s[i] \in 97..122 THEN s[i] - 32 ELSE s[i]]

\* Python's str() of a list of str: "['a', 'b']"
RECURSIVE ListItems(_)
ListItems(parts) ==
    IF parts = <<>> THEN <<>>
    ELSE <<39>> \o Head(parts) \o <<39>>
         \o (IF Len(parts) > 1 THEN <<44, 32>> \o ListItems(Tail(parts)) ELSE <<>>)

\* the value of a local variable, computed once where it is assigned
Only(S) == CHOOSE x \in S : TRUE

\* parsers.slicer(reply, a, b) on a list of str: one element is returned as a str
slicer(reply, a, b) ==
    LET sliced == Slice(reply, a, b) IN
    IF Len(sliced) = 1 THEN [kind |-> "str", str |-> sliced[1], list |-> <<>>]
    ELSE [kind |-> "list", str |-> <<>>, list |-> sliced]

\* parsers.splitter(reply, separator, a, b)
splitter(reply, separator, a, b) == slicer(Split(reply, separator), a, b)

-----------------------------------------------------------------------------
(* Exceptions and command definitions *)

\* the library's error types (PyLabware.exceptions), as the drivers import them
LibraryErrors == {"PLConnectionError", "PLDeviceError", "PLDeviceCommandError",
                  "PLDeviceInternalError", "PLDeviceReplyError"}

\* the outcome of a call: the exception it raised ("none": it returned), the
\* exception's message, the returned value and its type, and the steps the
\* call went through, in order
Returned(vtype, value, trace) ==
    [vtype |-> vtype, value |-> value, trace |-> trace, exc |-> "none", msg |-> ""]

Raised(exc, msg, trace) ==
    [vtype |-> "none", value |-> <<>>, trace |-> trace, exc |-> exc, msg |-> msg]

NoOutcome == Raised("not called", "", <<>>)

\* "0".."9"
Digits == 48..57

RECURSIVE IntOf(_)
IntOf(s) == IF s = <<>> THEN 0 ELSE 10 * IntOf(SubSeq(s, 1, Len(s) - 1)) + (s[Len(s)] - 48)

\* the reply decoder of the base class: the command's reply parser, if it has
\* one, applied to the payload, and the result coerced to the command's reply
\* type; a payload that is no literal of the type is a reply error
LabDevice_parse_reply(cmd, reply) ==
    LET parsed == IF "parser" \notin DOMAIN cmd THEN reply
                  ELSE IF cmd.parser = "upper" THEN Upper(reply)
                  ELSE LET x == splitter(reply, 44, 0, 2) IN
                       IF x.kind = "str" THEN x.str ELSE <<91>> \o ListItems(x.list) \o <<93>> IN
    IF cmd.reply_type = "int"
    THEN IF parsed # <<>> /\ \A i \in 1..Len(parsed) : parsed[i] \in Digits
         THEN Returned("int", <<IntOf(parsed)>>, <<"LabDevice.parse_reply">>)
         ELSE Raised("PLDeviceReplyError", "cannot coerce reply", <<"LabDevice.parse_reply">>)
    ELSE Returned("str", parsed, <<"LabDevice.parse_reply">>)

-----------------------------------------------------------------------------
(* Cadent 3 syringe pump: status byte decoding *)

Cadent3_ERROR_CODES ==
    (0 :> "no error") @@ (1 :> "syringe failed to initialize") @@
    (2 :> "invalid command") @@ (3 :> "invalid argument") @@
    (4 :> "communication error") @@ (5 :> "invalid \"R\" command") @@
    (6 :> "supply voltage too low") @@ (7 :> "device not initialized") @@
    (8 :> "program in progress") @@ (9 :> "syringe overload") @@
    (10 :> "valve overload") @@ (11 :> "syringe move not allowed") @@
    (12 :> "cannot move against limit") @@ (15 :> "command buffer overflow") @@
    (16 :> "use for 3-way valve only") @@ (17 :> "loops nested too deep") @@
    (18 :> "program label not found") @@ (19 :> "end of program not found") @@
    (20 :> "out of program space") @@ (21 :> "home not set") @@
    (22 :> "too many program calls") @@ (23 :> "program not found") @@
    (24 :> "valve position error") @@ (25 :> "syringe position corrupted") @@
    (26 :> "syringe may go past home")

\* Python's a & b on non-negative integers
RECURSIVE BitAnd(_, _)
BitAnd(a, b) == IF a = 0 \/ b = 0 THEN 0
                ELSE 2 * BitAnd(a \div 2, b \div 2) + (IF a % 2 = 1 /\ b % 2 = 1 THEN 1 ELSE 0)

Cadent3_GET_STATUS == [reply_type |-> "str", name |-> <<81>>]
Cadent3_GET_SYR_POS == [reply_type |-> "int", name |-> <<63>>]

\* "/0"
Cadent3_reply_prefix == <<47, 48>>
\* "\x03\r\n"
Cadent3_reply_terminator == <<3, 13, 10>>

\* a plausible slip: the mask keeps 4 bits instead of 5
check_errors_Mask4(status) ==
    LET error_code == BitAnd(status, 15) IN
    IF error_code = 0 THEN Returned("none", <<>>, <<"check_errors">>)
    ELSE IF error_code \in DOMAIN Cadent3_ERROR_CODES
         THEN Raised("PLDeviceInternalError", Cadent3_ERROR_CODES[error_code], <<"check_errors">>)
         ELSE Raised("PLDeviceReplyError", "Unknown error!", <<"check_errors">>)

\* check_errors() on self._last_status = status
check_errors(status) ==
    LET error_code == BitAnd(status, 31) IN
    IF error_code = 0 THEN Returned("none", <<>>, <<"check_errors">>)
    ELSE IF error_code \in DOMAIN Cadent3_ERROR_CODES
         THEN Raised("PLDeviceInternalError", Cadent3_ERROR_CODES[error_code], <<"check_errors">>)
         ELSE Raised("PLDeviceReplyError", "Unknown error!", <<"check_errors">>)

\* what a parse_reply call leaves: its outcome, self._last_status, and the
\* outcome of the status check it made (NoOutcome when it made none)
ParseOut(out, status, check) ==
    [last_status |-> status, out |-> out, check |-> check]

\* a plausible slip: the payload is decoded before the status byte is looked at
Cadent3_parse_reply_DecodeFirst(cmd, body, old) ==
    LET reply == stripper(body, Cadent3_reply_prefix, Cadent3_reply_terminator) IN
    IF reply = <<>>
    THEN ParseOut(Raised("IndexError", "string index out of range",
                                        <<"stripper">>), old, NoOutcome)
    ELSE LET base == LabDevice_parse_reply(cmd, Tail(reply))
             chk == check_errors(reply[1]) IN
         IF chk.exc # "none"
         THEN ParseOut(
                  [chk EXCEPT !.trace = <<"stripper">> \o base.trace \o chk.trace],
                  reply[1], chk)
         ELSE ParseOut(
                  [base EXCEPT !.trace = <<"stripper">> \o base.trace \o chk.trace],
                  reply[1], chk)

Cadent3_parse_reply(cmd, body, old) ==
    LET reply == stripper(body, Cadent3_reply_prefix, Cadent3_reply_terminator) IN
    IF reply = <<>>
    THEN \* reply[0] on an empty str
         ParseOut(Raised("IndexError", "string index out of range",
                                        <<"stripper">>), old, NoOutcome)
    ELSE LET chk == check_errors(reply[1]) IN
         IF chk.exc # "none"
         THEN ParseOut(
                  [chk EXCEPT !.trace = <<"stripper">> \o chk.trace], reply[1], chk)
         ELSE LET base == LabDevice_parse_reply(cmd, Tail(reply)) IN
              ParseOut(
                  [base EXCEPT !.trace = <<"stripper">> \o chk.trace \o base.trace],
                  reply[1], chk)

-----------------------------------------------------------------------------
(* Kern KDP3000 balance: response code decoding *)

\* "A", "B", "S", "D"
KDP3000_RESPONSE_CODES ==
    (<<65>> :> "Acknowledged.") @@ (<<66>> :> "More data to follow.") @@
    (<<83>> :> "Stable.") @@ (<<68>> :> "Dynamic.")

\* "L", "I", "ES", "+", "-"
KDP3000_ERROR_CODES ==
    (<<76>> :> "Logical error or invalid parameter.") @@ (<<73>> :> "Internal error.") @@
    (<<69, 83>> :> "Syntax error.") @@ (<<43>> :> "Overweight!") @@
    (<<45>> :> "Underweight!")

KDP3000_SET_ZERO == [reply_type |-> "str", name |-> <<90>>]
KDP3000_SET_TARE == [reply_type |-> "str", name |-> <<84>>]

\* the reply prefix is the base class's default: none
KDP3000_reply_prefix == None
\* "\r\n"
KDP3000_reply_terminator == <<13, 10>>

\* sep.join(parts) for a one-character separator
RECURSIVE Join(_, _)
Join(parts, sep) == IF parts = <<>> THEN <<>>
                    ELSE IF Len(parts) = 1 THEN parts[1]
                    ELSE parts[1] \o <<sep>> \o Join(Tail(parts), sep)

\* s.strip(c) for a one-character c
RECURSIVE Strip(_, _)
Strip(s, c) == IF s # <<>> /\ s[1] = c THEN Strip(Tail(s), c)
               ELSE IF s # <<>> /\ s[Len(s)] = c THEN Strip(SubSeq(s, 1, Len(s) - 1), c)
               ELSE s

\* KDP3000Balance.parse_reply(cmd, reply)
KDP3000_parse_reply(cmd, body, old) ==
    LET stripped == stripper(body, KDP3000_reply_prefix, KDP3000_reply_terminator)
        parts == Split(stripped, 32)
    IN
    IF Len(parts) < 2
    THEN \* command, response_code, *reply = ... with fewer than two parts
         ParseOut(Raised("ValueError", "not enough values to unpack",
                         <<"stripper", "split">>), old, NoOutcome)
    ELSE LET response_code == parts[2]
             reply == SubSeq(parts, 3, Len(parts))
             seen == <<"stripper", "split", "response_code">>
         IN
         IF response_code \in DOMAIN KDP3000_ERROR_CODES
         THEN IF response_code \in {<<76>>, <<73>>, <<43>>, <<45>>}
              THEN LET e == Raised("PLDeviceError", KDP3000_ERROR_CODES[response_code], seen)
                   IN ParseOut(e, old, e)
              ELSE IF response_code = <<69, 83>>
              THEN LET e == Raised("PLDeviceCommandError",
                                   KDP3000_ERROR_CODES[response_code], seen)
                   IN ParseOut(e, old, e)
              ELSE ParseOut(Returned("none", <<>>, seen), old, NoOutcome)
         ELSE IF response_code \in DOMAIN KDP3000_RESPONSE_CODES
         THEN LET glued == Strip(Strip(Join(reply, 32), 32), 34)
                  base == LabDevice_parse_reply(cmd, glued)
              IN ParseOut([base EXCEPT !.trace = seen \o base.trace], old,
                          Returned("none", <<>>, seen))
         ELSE LET e == Raised("PLDeviceError", "Unknown response code", seen)
              IN ParseOut(e, old, e)

-----------------------------------------------------------------------------
(* One reply, drawn from what a device or a disturbed line can deliver, is  *)
(* decoded by the driver's parse_reply.                                     *)

\* payloads after the status byte: none, "1", "12", "x"
Cadent3Payloads == {<<>>, <<49>>, <<49, 50>>, <<120>>}

StatusBytes == 0..255

\* response codes a balance reply may carry: the tabulated ones, and "X", "E"
KDP3000Codes == DOMAIN KDP3000_RESPONSE_CODES \cup DOMAIN KDP3000_ERROR_CODES
                \cup {<<88>>, <<69>>}

\* what follows the response code: nothing (None), "", "1", "\"1\"", "1 g"
KDP3000Payloads == {None, <<>>, <<49>>, <<34, 49, 34>>, <<49, 32, 103>>}

Cadent3Init ==
    /\ dDevice = "cadent3"
    /\ dCmd \in {Cadent3_GET_STATUS, Cadent3_GET_SYR_POS}
    /\ \/ \E st \in StatusBytes, payload \in Cadent3Payloads, framed \in BOOLEAN :
            /\ dSent = [payload |-> payload, status |-> <<st>>]
            /\ dBody = IF framed
                       THEN Frame(Cadent3_reply_prefix, <<st>> \o payload,
                                  Cadent3_reply_terminator)
                       ELSE <<st>> \o payload
       \/ \* a framed reply without a status byte: "/0\x03\r\n"
          /\ dSent = [payload |-> <<>>, status |-> <<>>]
          /\ dBody = Frame(Cadent3_reply_prefix, <<>>, Cadent3_reply_terminator)

KDP3000Init ==
    /\ dDevice = "kdp3000"
    /\ dCmd \in {KDP3000_SET_ZERO, KDP3000_SET_TARE}
    /\ \E code \in KDP3000Codes, payload \in KDP3000Payloads, echo \in BOOLEAN :
         /\ dSent = [payload |-> payload, status |-> code]
         /\ echo \/ payload = None
         /\ dBody = (IF echo THEN dCmd.name \o <<32>> ELSE <<>>) \o code
                    \o (IF payload = None THEN <<>> ELSE <<32>> \o payload)
                    \o KDP3000_reply_terminator

DecodeInit ==
    /\ Cadent3Init \/ KDP3000Init
    /\ last_status = 0
    /\ dOut = ParseOut(NoOutcome, 0, NoOutcome)

DecodeIdle ==
    /\ dDevice = "none" /\ dCmd = Cadent3_GET_STATUS /\ dBody = <<>>
    /\ dSent = [payload |-> <<>>, status |-> <<>>]
    /\ last_status = 0
    /\ dOut = ParseOut(NoOutcome, 0, NoOutcome)

Called == dOut.out # NoOutcome

\* Cadent3SyringePump.parse_reply on the reply received
Cadent3ParseReply ==
    /\ dDevice = "cadent3" /\ ~Called
    /\ dOut' = Cadent3_parse_reply(dCmd, dBody, last_status)
    /\ last_status' = dOut'.last_status
    /\ UNCHANGED <<dDevice, dCmd, dBody, dSent>>
    /\ UNCHANGED <<varsStrip, varsBus, varsOps, varsShare, varsSim>>

\* KDP3000Balance.parse_reply on the reply received
KDP3000ParseReply ==
    /\ dDevice = "kdp3000" /\ ~Called
    /\ dOut' = KDP3000_parse_reply(dCmd, dBody, last_status)
    /\ UNCHANGED <<dDevice, dCmd, dBody, dSent, last_status>>
    /\ UNCHANGED <<varsStrip, varsBus, varsOps, varsShare, varsSim>>

DecodeNext == Cadent3ParseReply \/ KDP3000ParseReply

-----------------------------------------------------------------------------
(* Cadent 3 syringe pumps on shared serial ports: the constructor's        *)
(* registration in BUS_DEVICES, connect() and disconnect().                *)

\* pump objects the program constructs, at most
NPumps == 3

Pumps == 1..NPumps

\* serial ports pumps are constructed on
Ports == {"COM1", "COM2"}

\* Cadent3SyringePumpCommands.SWITCH_ADDRESSES
SWITCH_ADDRESSES ==
    [a \in {"1", "2", "3", "4", "5", "6", "7", "8", "9",
            "A", "B", "C", "D", "E", "F", "all"} |->
        CASE a = "A" -> ":" [] a = "B" -> ";" [] a = "C" -> "<" [] a = "D" -> "="
          [] a = "E" -> ">" [] a = "F" -> "?" [] a = "all" -> "_" [] OTHER -> a]

\* Cadent3SyringePumpCommands.VALVE_TYPES
VALVE_TYPES ==
    ("3PORT_NDISTR" :> "1") @@ ("3PORT_DISTR" :> "2") @@ ("4PORT_NDISTR" :> "3") @@
    ("4PORT_DISTR" :> "4") @@ ("5PORT_NDISTR" :> "5") @@ ("5PORT_DISTR" :> "6") @@
    ("6PORT_NDISTR" :> "7") @@ ("6PORT_DISTR" :> "14") @@ ("8PORT_NDISTR" :> "9") @@
    ("8PORT_DISTR" :> "10") @@ ("12PORT_DISTR" :> "11") @@ ("2PORT_DISTR" :> "13") @@
    ("2PORT_SOL" :> "15") @@ ("NONE" :> "20202")

\* the constructor arguments drawn: a valid and an invalid one of each
ValveTypeArgs == {"3PORT_NDISTR", "7PORT"}
SwitchAddressArgs == {"1", "0"}

\* the next pump object to be constructed, NPumps + 1 when all are
NextPump == 1 + Cardinality({p \in Pumps : pumpState[p] # "none"})

\* the pumps constructed on a port
Built(port) == {p \in Pumps : pumpState[p] = "live" /\ pumpPort[p] = port}

NoCall == [exc |-> "none", port |-> "", op |-> "none", pump |-> 0, closed |-> FALSE]

Call(op, p, port, exc, closed) ==
    [exc |-> exc, port |-> port, op |-> op, pump |-> p, closed |-> closed]

BusInit ==
    /\ BUS_DEVICES = <<>>
    /\ pumpState = [p \in Pumps |-> "none"]
    /\ pumpPort = [p \in Pumps |-> ""]
    /\ connection = [p \in Pumps |-> 0]
    /\ connOpen = [c \in Pumps |-> FALSE]
    /\ pc = [p \in Pumps |-> "idle"]
    /\ current_refs = [p \in Pumps |-> 0]
    /\ entry_read = [p \in Pumps |-> 0]
    /\ connected = {}
    /\ disconnected = {}
    /\ opens = [x \in Ports |-> 0]
    /\ closes = [x \in Ports |-> 0]
    /\ orderly = [x \in Ports |-> TRUE]
    /\ binds = [x \in Ports |-> 0]
    /\ unbinds = [x \in Ports |-> 0]
    /\ lastCall = NoCall

\* no call is running in any thread
Quiescent == \A p \in Pumps : pc[p] = "idle"

\* a plausible slip: an existing connection is reused without counting the pump
Bind_NoIncrement(bus, port, p) ==
    IF port \in DOMAIN bus
    THEN bus
    ELSE (port :> [pumps |-> 1, conn |-> p, id |-> p]) @@ bus

\* the constructor's registration of pump p, whose own connection object is p:
\* the reference count of an open port goes up, a new port gets an entry
Bind(bus, port, p) ==
    IF port \in DOMAIN bus
    THEN [bus EXCEPT ![port].pumps = @ + 1]
    ELSE (port :> [pumps |-> 1, conn |-> p, id |-> p]) @@ bus

\* dict.pop(port)
Pop(bus, port) == [x \in (DOMAIN bus) \ {port} |-> bus[x]]

\* Cadent3SyringePump(..., port, switch_address, valve_type)
Construct(port, valve_type, switch_address) ==
    LET p == NextPump IN
    /\ Quiescent
    /\ p \in Pumps
    /\ IF valve_type \notin DOMAIN VALVE_TYPES
       THEN \* raised before the object has a connection
            /\ lastCall' = Call("init", p, port, "PLDeviceError", FALSE)
            /\ UNCHANGED <<BUS_DEVICES, pumpState, pumpPort, connection, orderly, binds>>
       ELSE /\ BUS_DEVICES' = Bind(BUS_DEVICES, port, p)
            /\ connection' = [connection EXCEPT ![p] = BUS_DEVICES'[port].conn]
            /\ pumpPort' = [pumpPort EXCEPT ![p] = port]
            /\ IF switch_address \notin DOMAIN SWITCH_ADDRESSES
               THEN /\ pumpState' = [pumpState EXCEPT ![p] = "failed"]
                    /\ lastCall' = Call("init", p, port, "PLDeviceError", FALSE)
                    /\ orderly' = [orderly EXCEPT ![port] = FALSE]
                    /\ UNCHANGED binds
               ELSE /\ pumpState' = [pumpState EXCEPT ![p] = "live"]
                    /\ lastCall' = Call("init", p, port, "none", FALSE)
                    /\ orderly' = [orderly EXCEPT
                                     ![port] = @ /\ Built(port) \cap disconnected = {}]
                    /\ binds' = [binds EXCEPT ![port] = @ + 1]
    /\ UNCHANGED <<connOpen, pc, current_refs, entry_read, connected, disconnected,
                   opens, closes, unbinds>>
    /\ UNCHANGED <<varsStrip, varsDecode, varsOps, varsShare>>

\* the base class's connect(): the transport is opened
LabDevice_connect(open, c) == [open EXCEPT ![c] = TRUE]

\* the base class's disconnect(): the transport is closed
LabDevice_disconnect(open, c) == [open EXCEPT ![c] = FALSE]

\* pump p calls connect()
Connect(p) ==
    /\ Quiescent
    /\ pumpState[p] = "live"
    /\ IF ~connOpen[connection[p]]
       THEN /\ connOpen' = LabDevice_connect(connOpen, connection[p])
            /\ opens' = [opens EXCEPT ![pumpPort[p]] = @ + 1]
       ELSE UNCHANGED <<connOpen, opens>>
    /\ connected' = connected \cup {p}
    /\ orderly' = [orderly EXCEPT
                     ![pumpPort[p]] = @ /\ Built(pumpPort[p]) \cap disconnected = {}]
    /\ lastCall' = Call("connect", p, pumpPort[p], "none", FALSE)
    /\ UNCHANGED <<BUS_DEVICES, pumpState, pumpPort, connection, pc, current_refs,
                   entry_read, disconnected, closes, binds, unbinds>>
    /\ UNCHANGED <<varsStrip, varsDecode, varsOps, varsShare>>

\* pump p calls disconnect()
Disconnect(p) ==
    LET port == pumpPort[p] IN
    /\ Quiescent
    /\ pumpState[p] = "live"
    /\ IF ~connOpen[connection[p]]
       THEN \* "Connection not open yet!"
            /\ lastCall' = Call("disconnect", p, port, "none", FALSE)
            /\ orderly' = [orderly EXCEPT ![port] = FALSE]
            /\ UNCHANGED <<BUS_DEVICES, connOpen, disconnected, closes, unbinds>>
       ELSE IF port \notin DOMAIN BUS_DEVICES
       THEN \* BUS_DEVICES[self.port] on a port without an entry
            /\ lastCall' = Call("disconnect", p, port, "KeyError", FALSE)
            /\ orderly' = [orderly EXCEPT ![port] = FALSE]
            /\ UNCHANGED <<BUS_DEVICES, connOpen, disconnected, closes, unbinds>>
       ELSE /\ IF BUS_DEVICES[port].pumps - 1 = 0
               THEN /\ BUS_DEVICES' = Pop(BUS_DEVICES, port)
                    /\ connOpen' = LabDevice_disconnect(connOpen, connection[p])
                    /\ closes' = [closes EXCEPT ![port] = @ + 1]
                    /\ lastCall' = Call("disconnect", p, port, "none", TRUE)
               ELSE /\ BUS_DEVICES' = [BUS_DEVICES EXCEPT ![port].pumps = @ - 1]
                    /\ lastCall' = Call("disconnect", p, port, "none", FALSE)
                    /\ UNCHANGED <<connOpen, closes>>
            /\ disconnected' = disconnected \cup {p}
            /\ unbinds' = [unbinds EXCEPT ![port] = @ + 1]
            /\ orderly' = [orderly EXCEPT ![port] = @ /\ p \notin disconnected]
    /\ UNCHANGED <<pumpState, pumpPort, connection, pc, current_refs, entry_read,
                   connected, opens, binds>>
    /\ UNCHANGED <<varsStrip, varsDecode, varsOps, varsShare>>

BusNext ==
    /\ \/ \E port \in Ports, vt \in ValveTypeArgs, sw \in SwitchAddressArgs :
            Construct(port, vt, sw)
       \/ \E p \in Pumps : Connect(p)
       \/ \E p \in Pumps : Disconnect(p)
    /\ UNCHANGED varsSim

-----------------------------------------------------------------------------
(* The same calls made from one thread per pump, a thread switch possible  *)
(* between the statements of a call: the registry is read and written      *)
(* without a lock.  pc[p] names the statement thread p executes next.      *)

\* the port the threads' pumps share
SharedPort == "COM1"

\* dict[port] = entry
Store(bus, port, entry) ==
    [x \in (DOMAIN bus) \cup {port} |-> IF x = port THEN entry ELSE bus[x]]

Goto(p, label) == pc' = [pc EXCEPT ![p] = label]

\* a thread enters Cadent3SyringePump(...) with valid arguments; the base
\* class's constructor gives the new object its own connection
InitEnter(p) ==
    /\ pc[p] = "idle" /\ pumpState[p] = "none"
    /\ pumpState' = [pumpState EXCEPT ![p] = "init"]
    /\ pumpPort' = [pumpPort EXCEPT ![p] = SharedPort]
    /\ connection' = [connection EXCEPT ![p] = p]
    /\ Goto(p, "init_lookup")
    /\ UNCHANGED <<BUS_DEVICES, connOpen, current_refs, entry_read, connected,
                   disconnected, opens, closes, orderly, binds, unbinds, lastCall>>
    /\ UNCHANGED <<varsStrip, varsDecode, varsOps, varsShare, varsSim>>

\* self.connection = BUS_DEVICES[port]["conn"], or KeyError
InitLookup(p) ==
    /\ pc[p] = "init_lookup"
    /\ IF pumpPort[p] \in DOMAIN BUS_DEVICES
       THEN /\ connection' = [connection EXCEPT ![p] = BUS_DEVICES[pumpPort[p]].conn]
            /\ Goto(p, "init_read")
       ELSE /\ Goto(p, "init_create")
            /\ UNCHANGED connection
    /\ UNCHANGED <<BUS_DEVICES, pumpState, pumpPort, connOpen, current_refs, entry_read,
                   connected, disconnected, opens, closes, orderly, binds, unbinds,
                   lastCall>>
    /\ UNCHANGED <<varsStrip, varsDecode, varsOps, varsShare, varsSim>>

\* BUS_DEVICES[port]["pumps"] += 1: the entry is looked up and its count read
InitRead(p) ==
    /\ pc[p] = "init_read"
    /\ IF pumpPort[p] \in DOMAIN BUS_DEVICES
       THEN /\ entry_read' = [entry_read EXCEPT ![p] = BUS_DEVICES[pumpPort[p]].id]
            /\ current_refs' = [current_refs EXCEPT ![p] = BUS_DEVICES[pumpPort[p]].pumps]
            /\ Goto(p, "init_write")
       ELSE \* KeyError, caught by the same except clause
            /\ Goto(p, "init_create")
            /\ UNCHANGED <<entry_read, current_refs>>
    /\ UNCHANGED <<BUS_DEVICES, pumpState, pumpPort, connection, connOpen, connected,
                   disconnected, opens, closes, orderly, binds, unbinds, lastCall>>
    /\ UNCHANGED <<varsStrip, varsDecode, varsOps, varsShare, varsSim>>

\* BUS_DEVICES[port]["pumps"] += 1: the sum is stored in the entry that was
\* looked up, which may be in the registry no more; the constructor returns
InitWrite(p) ==
    LET port == pumpPort[p] IN
    /\ pc[p] = "init_write"
    /\ IF port \in DOMAIN BUS_DEVICES /\ BUS_DEVICES[port].id = entry_read[p]
       THEN BUS_DEVICES' = [BUS_DEVICES EXCEPT ![port].pumps = current_refs[p] + 1]
       ELSE UNCHANGED BUS_DEVICES
    /\ pumpState' = [pumpState EXCEPT ![p] = "live"]
    /\ binds' = [binds EXCEPT ![port] = @ + 1]
    /\ lastCall' = Call("init", p, port, "none", FALSE)
    /\ Goto(p, "idle")
    /\ UNCHANGED <<pumpPort, connection, connOpen, current_refs, entry_read, connected,
                   disconnected, opens, closes, orderly, unbinds>>
    /\ UNCHANGED <<varsStrip, varsDecode, varsOps, varsShare, varsSim>>

\* BUS_DEVICES[port] = {"pumps": 1, "conn": self.connection}; the constructor returns
InitCreate(p) ==
    LET port == pumpPort[p] IN
    /\ pc[p] = "init_create"
    /\ BUS_DEVICES' = Store(BUS_DEVICES, port,
                            [pumps |-> 1, conn |-> connection[p], id |-> p])
    /\ pumpState' = [pumpState EXCEPT ![p] = "live"]
    /\ binds' = [binds EXCEPT ![port] = @ + 1]
    /\ lastCall' = Call("init", p, port, "none", FALSE)
    /\ Goto(p, "idle")
    /\ UNCHANGED <<pumpPort, connection, connOpen, current_refs, entry_read, connected,
                   disconnected, opens, closes, orderly, unbinds>>
    /\ UNCHANGED <<varsStrip, varsDecode, varsOps, varsShare, varsSim>>

\* connect(): if not self.connection.is_connection_open()
ConnectCheck(p) ==
    /\ pc[p] = "idle" /\ pumpState[p] = "live" /\ p \notin connected
    /\ connected' = connected \cup {p}
    /\ IF ~connOpen[connection[p]]
       THEN Goto(p, "connect_open") /\ UNCHANGED lastCall
       ELSE /\ lastCall' = Call("connect", p, pumpPort[p], "none", FALSE)
            /\ UNCHANGED pc
    /\ UNCHANGED <<BUS_DEVICES, pumpState, pumpPort, connection, connOpen, current_refs,
                   entry_read, disconnected, opens, closes, orderly, binds, unbinds>>
    /\ UNCHANGED <<varsStrip, varsDecode, varsOps, varsShare, varsSim>>

\* connect(): return super().connect()
ConnectOpen(p) ==
    /\ pc[p] = "connect_open"
    /\ connOpen' = LabDevice_connect(connOpen, connection[p])
    /\ opens' = [opens EXCEPT ![pumpPort[p]] = @ + 1]
    /\ lastCall' = Call("connect", p, pumpPort[p], "none", FALSE)
    /\ Goto(p, "idle")
    /\ UNCHANGED <<BUS_DEVICES, pumpState, pumpPort, connection, current_refs,
                   entry_read, connected, disconnected, closes, orderly, binds, unbinds>>
    /\ UNCHANGED <<varsStrip, varsDecode, varsOps, varsShare, varsSim>>

\* disconnect(): if not self.connection.is_connection_open(): return
DisconnectCheck(p) ==
    /\ pc[p] = "idle" /\ pumpState[p] = "live" /\ p \in connected
    /\ p \notin disconnected
    /\ IF ~connOpen[connection[p]]
       THEN /\ lastCall' = Call("disconnect", p, pumpPort[p], "none", FALSE)
            /\ UNCHANGED pc
       ELSE Goto(p, "disc_read") /\ UNCHANGED lastCall
    /\ UNCHANGED <<BUS_DEVICES, pumpState, pumpPort, connection, connOpen, current_refs,
                   entry_read, connected, disconnected, opens, closes, orderly, binds,
                   unbinds>>
    /\ UNCHANGED <<varsStrip, varsDecode, varsOps, varsShare, varsSim>>

\* current_refs = BUS_DEVICES[self.port]["pumps"]; current_refs -= 1
DisconnectRead(p) ==
    /\ pc[p] = "disc_read"
    /\ IF pumpPort[p] \in DOMAIN BUS_DEVICES
       THEN /\ current_refs' = [current_refs EXCEPT
                                  ![p] = BUS_DEVICES[pumpPort[p]].pumps - 1]
            /\ Goto(p, "disc_branch")
            /\ UNCHANGED lastCall
       ELSE /\ lastCall' = Call("disconnect", p, pumpPort[p], "KeyError", FALSE)
            /\ Goto(p, "idle")
            /\ UNCHANGED current_refs
    /\ UNCHANGED <<BUS_DEVICES, pumpState, pumpPort, connection, connOpen, entry_read,
                   connected, disconnected, opens, closes, orderly, binds, unbinds>>
    /\ UNCHANGED <<varsStrip, varsDecode, varsOps, varsShare, varsSim>>

\* if current_refs == 0: BUS_DEVICES.pop(self.port)
\* else: BUS_DEVICES[self.port]["pumps"] = current_refs
DisconnectBranch(p) ==
    LET port == pumpPort[p] IN
    /\ pc[p] = "disc_branch"
    /\ IF port \notin DOMAIN BUS_DEVICES
       THEN \* KeyError from pop() or from the lookup of the entry
            /\ lastCall' = Call("disconnect", p, port, "KeyError", FALSE)
            /\ Goto(p, "idle")
            /\ UNCHANGED <<BUS_DEVICES, disconnected, unbinds>>
       ELSE IF current_refs[p] = 0
       THEN /\ BUS_DEVICES' = Pop(BUS_DEVICES, port)
            /\ Goto(p, "disc_close")
            /\ UNCHANGED <<lastCall, disconnected, unbinds>>
       ELSE /\ BUS_DEVICES' = [BUS_DEVICES EXCEPT ![port].pumps = current_refs[p]]
            /\ disconnected' = disconnected \cup {p}
            /\ unbinds' = [unbinds EXCEPT ![port] = @ + 1]
            /\ lastCall' = Call("disconnect", p, port, "none", FALSE)
            /\ Goto(p, "idle")
    /\ UNCHANGED <<pumpState, pumpPort, connection, connOpen, current_refs, entry_read,
                   connected, opens, closes, orderly, binds>>
    /\ UNCHANGED <<varsStrip, varsDecode, varsOps, varsShare, varsSim>>

\* super().disconnect()
DisconnectClose(p) ==
    /\ pc[p] = "disc_close"
    /\ connOpen' = LabDevice_disconnect(connOpen, connection[p])
    /\ closes' = [closes EXCEPT ![pumpPort[p]] = @ + 1]
    /\ disconnected' = disconnected \cup {p}
    /\ unbinds' = [unbinds EXCEPT ![pumpPort[p]] = @ + 1]
    /\ lastCall' = Call("disconnect", p, pumpPort[p], "none", TRUE)
    /\ Goto(p, "idle")
    /\ UNCHANGED <<BUS_DEVICES, pumpState, pumpPort, connection, current_refs,
                   entry_read, connected, opens, orderly, binds>>
    /\ UNCHANGED <<varsStrip, varsDecode, varsOps, varsShare, varsSim>>

ConcNext ==
    \E p \in Pumps :
        \/ InitEnter(p) \/ InitLookup(p) \/ InitRead(p) \/ InitWrite(p) \/ InitCreate(p)
        \/ ConnectCheck(p) \/ ConnectOpen(p)
        \/ DisconnectCheck(p) \/ DisconnectRead(p) \/ DisconnectBranch(p)
        \/ DisconnectClose(p)


-----------------------------------------------------------------------------
(* Command definitions, argument validation and framing *)

\* the argument handed to send(): none, an int or a str
NoArg == [str |-> <<>>, given |-> FALSE, type |-> "none", int |-> 0]

IntArg(n) == [str |-> <<>>, given |-> TRUE, type |-> "int", int |-> n]

StrArg(s) == [str |-> s, given |-> TRUE, type |-> "str", int |-> 0]

\* Python's str(n) of an int
RECURSIVE StrNat(_)
StrNat(n) == IF n < 10 THEN <<48 + n>> ELSE StrNat(n \div 10) \o <<48 + (n % 10)>>

Str(n) == IF n < 0 THEN <<45>> \o StrNat(0 - n) ELSE StrNat(n)

\* the argument as it is written into the frame
ArgStr(arg) == IF arg.type = "int" THEN Str(arg.int) ELSE arg.str

\* ord() of the one-character values of SWITCH_ADDRESSES
CharCode ==
    [c \in {"1", "2", "3", "4", "5", "6", "7", "8", "9",
            ":", ";", "<", "=", ">", "?", "_"} |->
        CASE c = "1" -> 49 [] c = "2" -> 50 [] c = "3" -> 51 [] c = "4" -> 52
          [] c = "5" -> 53 [] c = "6" -> 54 [] c = "7" -> 55 [] c = "8" -> 56
          [] c = "9" -> 57 [] c = ":" -> 58 [] c = ";" -> 59 [] c = "<" -> 60
          [] c = "=" -> 61 [] c = ">" -> 62 [] c = "?" -> 63 [] OTHER -> 95]

\* Cadent 3 command definitions; a key the Python dict lacks is a field the
\* record lacks ("type": the argument type, "check": its rule,
\* "reply_type"/"parser": how the reply is decoded)
\* a plausible slip: the lower-case name, which is the move that sets no busy flag
Cadent3_SYR_MOVE_ABS_LowerCase == [reply_type |-> "str", name |-> <<97>>, type |-> "int"]

Cadent3_SYR_MOVE_ABS == [reply_type |-> "str", name |-> <<65>>, type |-> "int"]

Cadent3_SYR_MOVE_ABS_NOBUSY == [reply_type |-> "str", name |-> <<97>>, type |-> "int"]

Cadent3_SYR_SUCK_REL == [reply_type |-> "str", name |-> <<80>>, type |-> "int"]

Cadent3_SYR_SUCK_REL_NOBUSY == [reply_type |-> "str", name |-> <<112>>, type |-> "int"]

Cadent3_SYR_SPIT_REL == [reply_type |-> "str", name |-> <<68>>, type |-> "int"]

Cadent3_SYR_SPIT_REL_NOBUSY == [reply_type |-> "str", name |-> <<100>>, type |-> "int"]

Cadent3_VALVE_MOVE == [reply_type |-> "str", name |-> <<111>>, type |-> "str"]

\* "R"
Cadent3_PRG_RUN == [reply_type |-> "str", name |-> <<82>>]

\* "?32"
Cadent3_GET_FW_VER == [reply_type |-> "str", name |-> <<63, 51, 50>>]

\* "?1", "?2", "?3"
Cadent3_GET_START_VEL == [reply_type |-> "int", name |-> <<63, 49>>]

Cadent3_GET_MAX_VEL == [reply_type |-> "int", name |-> <<63, 50>>]

Cadent3_GET_STOP_VEL == [reply_type |-> "int", name |-> <<63, 51>>]

\* "?30", decoded by parser.splitter(reply, ",", 0, 2)
Cadent3_GET_STEP_RAMP == [parser |-> "splitter", reply_type |-> "str", name |-> <<63, 51, 48>>]

\* "?8", decoded by str.upper
Cadent3_GET_VALVE_POS == [parser |-> "upper", reply_type |-> "str", name |-> <<63, 56>>]

\* "~V"
Cadent3_GET_SET_VALVE_TYPE == [reply_type |-> "str", name |-> <<126, 86>>, type |-> "str"]

\* "?@26"
Cadent3_GET_SET_SYR_RES == [reply_type |-> "int", name |-> <<63, 64, 50, 54>>]

\* a plausible slip: a digit lost in the upper limit
Cadent3_SET_MAX_VEL_Max1000 ==
    [reply_type |-> "str", name |-> <<86>>, check |-> [min |-> 1, max |-> 1000],
     type |-> "int"]

Cadent3_SET_START_VEL ==
    [reply_type |-> "str", name |-> <<118>>, check |-> [min |-> 1, max |-> 10000],
     type |-> "int"]

Cadent3_SET_MAX_VEL ==
    [reply_type |-> "str", name |-> <<86>>, check |-> [min |-> 1, max |-> 10000],
     type |-> "int"]

Cadent3_SET_STOP_VEL ==
    [reply_type |-> "str", name |-> <<99>>, check |-> [min |-> 1, max |-> 10000],
     type |-> "int"]

\* f'"{i}"'
Quoted(s) == <<34>> \o s \o <<34>>

\* Metrohm 781: "&Mode.pH.MeasPara.Stirrer.Rate", values '"1"' .. '"15"', no reply
Metrohm781_SET_SPEED ==
    [name |-> <<38, 77, 111, 100, 101, 46, 112, 72, 46, 77, 101, 97, 115, 80, 97,
                114, 97, 46, 83, 116, 105, 114, 114, 101, 114, 46, 82, 97, 116, 101>>,
     check |-> [values |-> {Quoted(Str(i)) : i \in 1..15}],
     type |-> "str"]

\* a str that is an int literal: digits, with an optional sign
IsIntLiteral(s) ==
    LET d == IF s # <<>> /\ s[1] = 45 THEN Tail(s) ELSE s IN
    d # <<>> /\ \A i \in 1..Len(d) : d[i] \in Digits

\* the value coerced to the command's argument type; ok is FALSE when it cannot be
Coerce(type, arg) ==
    IF type = arg.type THEN [value |-> arg, ok |-> TRUE]
    ELSE IF type = "str" THEN [value |-> StrArg(Str(arg.int)), ok |-> TRUE]
    ELSE IF IsIntLiteral(arg.str)
         THEN [value |-> IntArg(IF arg.str[1] = 45 THEN 0 - IntOf(Tail(arg.str))
                                ELSE IntOf(arg.str)),
               ok |-> TRUE]
         ELSE [value |-> arg, ok |-> FALSE]

\* the value obeys the command's rule: a closed set of values or a [min, max] range
Obeys(check, value) ==
    IF "values" \in DOMAIN check
    THEN IF value.type = "str" THEN value.str \in check.values
         ELSE Str(value.int) \in check.values
    ELSE value.type = "int" /\ check.min <= value.int /\ value.int <= check.max

\* validate(descriptor, value): the value to encode, or a failure (InvalidArgument)
validate(cmd, arg) ==
    IF "type" \notin DOMAIN cmd THEN [value |-> arg, ok |-> TRUE]
    ELSE IF ~arg.given THEN [value |-> arg, ok |-> FALSE]
    ELSE LET c == Coerce(cmd.type, arg) IN
         IF ~c.ok THEN c
         ELSE IF "check" \in DOMAIN cmd /\ ~Obeys(cmd.check, c.value)
              THEN [value |-> c.value, ok |-> FALSE]
              ELSE c

\* encode(session, descriptor, value): the bytes of the command
encode(session, cmd, arg) ==
    session.command_prefix \o cmd.name
        \o (IF arg.given THEN session.args_delimiter \o ArgStr(arg) ELSE <<>>)
        \o session.command_terminator

\* "R\r" and "\r"
RunTerminator == Cadent3_PRG_RUN.name \o <<13>>

NoRunTerminator == <<13>>

\* self.command_prefix of a pump constructed with the switch address
Cadent3_command_prefix(switch_address) ==
    <<47>> \o <<CharCode[SWITCH_ADDRESSES[switch_address]]>>

\* the protocol settings of the pump (switch address "1") with the terminator
Cadent3Session(terminator) ==
    [command_terminator |-> terminator,
     command_prefix |-> Cadent3_command_prefix("1"),
     args_delimiter |-> <<>>,
     device |-> "cadent3"]

\* the protocol settings of the Metrohm 781 meter
Metrohm781Session ==
    [command_terminator |-> <<13, 10>>,
     command_prefix |-> <<>>,
     args_delimiter |-> <<32>>,
     device |-> "metrohm781"]

\* the transport gave no reply in time (PLConnectionError)
ConnFail == <<-4>>

\* what one send() leaves: its outcome, self._last_status and the frames written
SendOut(out, status, frames) == [last_status |-> status, out |-> out, frames |-> frames]

\* LabDevice.send(cmd, value) when the transport answers with the reply body:
\* validation, then framing and the write, then the read and parse_reply
send(session, cmd, arg, reply, old) ==
    LET v == validate(cmd, arg) IN
    IF ~v.ok
    THEN SendOut(Raised("InvalidArgument", "invalid argument", <<"validate">>), old, <<>>)
    ELSE LET frame == encode(session, cmd, v.value) IN
         IF "reply_type" \notin DOMAIN cmd
         THEN SendOut(Returned("none", <<>>, <<"validate", "write">>), old, <<frame>>)
         ELSE IF reply = ConnFail
         THEN SendOut(Raised("PLConnectionError", "no reply", <<"validate", "write">>),
                      old, <<frame>>)
         ELSE LET Parsed(r) ==
                      SendOut([r.out EXCEPT !.trace = <<"validate", "write">> \o @],
                              r.last_status, <<frame>>)
              IN  Only({Parsed(r) : r \in {Cadent3_parse_reply(cmd, reply, old)}})

-----------------------------------------------------------------------------
(* Cadent 3 pump: the autorun setting and the query operations *)

\* the autorun property: "R" in self.command_terminator
autorun(terminator) == \E i \in 1..Len(terminator) : terminator[i] = Cadent3_PRG_RUN.name[1]

\* a plausible slip: the two branches the wrong way round
autorun_setter_Swapped(value) == IF value THEN <<13>> ELSE <<82, 13>>

\* the autorun setter: the terminator it stores
autorun_setter(value) == IF value THEN RunTerminator ELSE NoRunTerminator

\* what an operation made of whole send() calls leaves: its outcome,
\* self.command_terminator, self._last_status and the frames it wrote
OpRes(out, terminator, status, frames) ==
    [last_status |-> status, command_terminator |-> terminator, out |-> out,
     frames |-> frames]

\* a bool a call returns (1: True, 0: False)
Bool(b) == Returned("bool", <<IF b THEN 1 ELSE 0>>, <<>>)

\* the busy/idle test of is_idle and is_initialized: status & 1 << 5 == 0
IdleBitClear(status) == BitAnd(status, 32) = 0

\* get_status(): no finally, autorun is set again only when send() returned
get_status(terminator, old, reply) ==
    LET Outcome(x) ==
        IF x.out.exc # "none"
        THEN OpRes(x.out, autorun_setter(FALSE), x.last_status, x.frames)
        ELSE OpRes(x.out, autorun_setter(TRUE), x.last_status, x.frames)
    IN  Only({Outcome(x) : x \in {send(Cadent3Session(autorun_setter(FALSE)),
                                       Cadent3_GET_STATUS, NoArg, reply, old)}})

\* a plausible slip: the bit test the wrong way round
is_idle_BitInverted(terminator, old, reply) ==
    LET Outcome(x) ==
        IF x.out.exc = "PLConnectionError"
        THEN OpRes(Bool(FALSE), autorun_setter(TRUE), x.last_status, x.frames)
        ELSE IF x.out.exc # "none"
        THEN OpRes(x.out, autorun_setter(TRUE), x.last_status, x.frames)
        ELSE OpRes(Bool(IdleBitClear(x.last_status)), autorun_setter(TRUE),
                   x.last_status, x.frames)
    IN  Only({Outcome(x) : x \in {send(Cadent3Session(autorun_setter(FALSE)),
                                       Cadent3_GET_STATUS, NoArg, reply, old)}})

\* a plausible slip: a connection error is taken for an idle pump
is_idle_ConnErrorIdle(terminator, old, reply) ==
    LET Outcome(x) ==
        IF x.out.exc = "PLConnectionError"
        THEN OpRes(Bool(TRUE), autorun_setter(TRUE), x.last_status, x.frames)
        ELSE IF x.out.exc # "none"
        THEN OpRes(x.out, autorun_setter(TRUE), x.last_status, x.frames)
        ELSE OpRes(Bool(~IdleBitClear(x.last_status)), autorun_setter(TRUE),
                   x.last_status, x.frames)
    IN  Only({Outcome(x) : x \in {send(Cadent3Session(autorun_setter(FALSE)),
                                       Cadent3_GET_STATUS, NoArg, reply, old)}})

\* a plausible slip: except Exception instead of except PLConnectionError
is_idle_SwallowAll(terminator, old, reply) ==
    LET Outcome(x) ==
        IF x.out.exc # "none"
        THEN OpRes(Bool(FALSE), autorun_setter(TRUE), x.last_status, x.frames)
        ELSE OpRes(Bool(~IdleBitClear(x.last_status)), autorun_setter(TRUE),
                   x.last_status, x.frames)
    IN  Only({Outcome(x) : x \in {send(Cadent3Session(autorun_setter(FALSE)),
                                       Cadent3_GET_STATUS, NoArg, reply, old)}})

\* a plausible slip: after a connection error the stored status byte is tested
is_idle_StaleStatus(terminator, old, reply) ==
    LET Outcome(x) ==
        IF x.out.exc = "PLConnectionError"
        THEN OpRes(Bool(~IdleBitClear(old)), autorun_setter(TRUE), x.last_status, x.frames)
        ELSE IF x.out.exc # "none"
        THEN OpRes(x.out, autorun_setter(TRUE), x.last_status, x.frames)
        ELSE OpRes(Bool(~IdleBitClear(x.last_status)), autorun_setter(TRUE),
                   x.last_status, x.frames)
    IN  Only({Outcome(x) : x \in {send(Cadent3Session(autorun_setter(FALSE)),
                                       Cadent3_GET_STATUS, NoArg, reply, old)}})

\* is_idle(): a connection error is "not idle", any other error propagates;
\* finally: autorun = True
is_idle(terminator, old, reply) ==
    LET Outcome(x) ==
        IF x.out.exc = "PLConnectionError"
        THEN OpRes(Bool(FALSE), autorun_setter(TRUE), x.last_status, x.frames)
        ELSE IF x.out.exc # "none"
        THEN OpRes(x.out, autorun_setter(TRUE), x.last_status, x.frames)
        ELSE OpRes(Bool(~IdleBitClear(x.last_status)), autorun_setter(TRUE),
                   x.last_status, x.frames)
    IN  Only({Outcome(x) : x \in {send(Cadent3Session(autorun_setter(FALSE)),
                                       Cadent3_GET_STATUS, NoArg, reply, old)}})

\* is_initialized(): the same body as is_idle()
is_initialized(terminator, old, reply) ==
    LET Outcome(x) ==
        IF x.out.exc = "PLConnectionError"
        THEN OpRes(Bool(FALSE), autorun_setter(TRUE), x.last_status, x.frames)
        ELSE IF x.out.exc # "none"
        THEN OpRes(x.out, autorun_setter(TRUE), x.last_status, x.frames)
        ELSE OpRes(Bool(~IdleBitClear(x.last_status)), autorun_setter(TRUE),
                   x.last_status, x.frames)
    IN  Only({Outcome(x) : x \in {send(Cadent3Session(autorun_setter(FALSE)),
                                       Cadent3_GET_STATUS, NoArg, reply, old)}})

\* is_connected(): the firmware version query answered
is_connected(terminator, old, reply) ==
    LET Outcome(x) ==
        IF x.out.exc = "PLConnectionError"
        THEN OpRes(Bool(FALSE), autorun_setter(TRUE), x.last_status, x.frames)
        ELSE IF x.out.exc # "none"
        THEN OpRes(x.out, autorun_setter(TRUE), x.last_status, x.frames)
        ELSE OpRes(Bool(TRUE), autorun_setter(TRUE), x.last_status, x.frames)
    IN  Only({Outcome(x) : x \in {send(Cadent3Session(autorun_setter(FALSE)),
                                       Cadent3_GET_FW_VER, NoArg, reply, old)}})

\* get_plunger_position(): the autorun state is saved and, finally, set again
get_plunger_position(terminator, old, reply) ==
    LET autorun_state == autorun(terminator)
        Outcome(x) == OpRes(x.out, autorun_setter(autorun_state), x.last_status, x.frames)
    IN  Only({Outcome(x) : x \in {send(Cadent3Session(autorun_setter(FALSE)),
                                       Cadent3_GET_SYR_POS, NoArg, reply, old)}})

\* get_valve_position(): a plain send()
get_valve_position(terminator, old, reply) ==
    LET Outcome(x) ==
        OpRes(x.out, terminator, x.last_status, x.frames)
    IN  Only({Outcome(x) : x \in {send(Cadent3Session(terminator), Cadent3_GET_VALVE_POS,
                                       NoArg, reply, old)}})

\* get_ramp_slope(): the reply's characters, each as an int
get_ramp_slope(terminator, old, reply) ==
    LET Outcome(x) ==
        IF x.out.exc # "none"
        THEN OpRes(x.out, autorun_setter(FALSE), x.last_status, x.frames)
        ELSE IF \A i \in 1..Len(x.out.value) : x.out.value[i] \in Digits
        THEN OpRes(Returned("tuple", [i \in 1..Len(x.out.value) |-> x.out.value[i] - 48],
                            x.out.trace),
                   autorun_setter(TRUE), x.last_status, x.frames)
        ELSE OpRes(Raised("ValueError", "invalid literal for int()", x.out.trace),
                   autorun_setter(TRUE), x.last_status, x.frames)
    IN  Only({Outcome(x) : x \in {send(Cadent3Session(autorun_setter(FALSE)),
                                       Cadent3_GET_STEP_RAMP, NoArg, reply, old)}})

\* get_velocities(): three queries; the first that raises ends the call
get_velocities(terminator, old, replies) ==
    LET s == Cadent3Session(autorun_setter(FALSE))
        AfterStop(start, max, stop) ==
            IF stop.out.exc # "none"
            THEN OpRes(stop.out, autorun_setter(FALSE), stop.last_status,
                       start.frames \o max.frames \o stop.frames)
            ELSE OpRes(Returned("tuple",
                                start.out.value \o max.out.value \o stop.out.value,
                                stop.out.trace),
                       autorun_setter(TRUE), stop.last_status,
                       start.frames \o max.frames \o stop.frames)
        AfterMax(start, max) ==
            IF max.out.exc # "none"
            THEN OpRes(max.out, autorun_setter(FALSE), max.last_status,
                       start.frames \o max.frames)
            ELSE Only({AfterStop(start, max, stop) :
                       stop \in {send(s, Cadent3_GET_STOP_VEL, NoArg, replies[3],
                                      max.last_status)}})
        AfterStart(start) ==
            IF start.out.exc # "none"
            THEN OpRes(start.out, autorun_setter(FALSE), start.last_status, start.frames)
            ELSE Only({AfterMax(start, max) :
                       max \in {send(s, Cadent3_GET_MAX_VEL, NoArg, replies[2],
                                     start.last_status)}})
    IN  Only({AfterStart(start) :
              start \in {send(s, Cadent3_GET_START_VEL, NoArg, replies[1], old)}})

\* get_valve_type(): the valve type command sent without a value
get_valve_type(terminator, old, reply) ==
    LET Outcome(x) ==
        IF x.out.exc # "none"
        THEN OpRes(x.out, autorun_setter(FALSE), x.last_status, x.frames)
        ELSE OpRes(x.out, autorun_setter(TRUE), x.last_status, x.frames)
    IN  Only({Outcome(x) : x \in {send(Cadent3Session(autorun_setter(FALSE)),
                                       Cadent3_GET_SET_VALVE_TYPE, NoArg, reply, old)}})

\* get_pump_resolution()
get_pump_resolution(terminator, old, reply) ==
    LET Outcome(x) ==
        IF x.out.exc # "none"
        THEN OpRes(x.out, autorun_setter(FALSE), x.last_status, x.frames)
        ELSE OpRes(x.out, autorun_setter(TRUE), x.last_status, x.frames)
    IN  Only({Outcome(x) : x \in {send(Cadent3Session(autorun_setter(FALSE)),
                                       Cadent3_GET_SET_SYR_RES, NoArg, reply, old)}})

\* set_start_velocity(), set_max_velocity(), set_stop_velocity(): a plain send()
set_start_velocity(terminator, old, start_velocity, reply) ==
    LET Outcome(x) ==
        OpRes(x.out, terminator, x.last_status, x.frames)
    IN  Only({Outcome(x) : x \in {send(Cadent3Session(terminator), Cadent3_SET_START_VEL,
                                       IntArg(start_velocity), reply, old)}})

set_max_velocity(terminator, old, max_velocity, reply) ==
    LET Outcome(x) ==
        OpRes(x.out, terminator, x.last_status, x.frames)
    IN  Only({Outcome(x) : x \in {send(Cadent3Session(terminator), Cadent3_SET_MAX_VEL,
                                       IntArg(max_velocity), reply, old)}})

set_stop_velocity(terminator, old, stop_velocity, reply) ==
    LET Outcome(x) ==
        OpRes(x.out, terminator, x.last_status, x.frames)
    IN  Only({Outcome(x) : x \in {send(Cadent3Session(terminator), Cadent3_SET_STOP_VEL,
                                       IntArg(stop_velocity), reply, old)}})

\* set_speed(speed) is set_max_velocity(speed)
Cadent3_set_speed(terminator, old, speed, reply) ==
    set_max_velocity(terminator, old, speed, reply)

\* Metrohm781pHMeter.set_speed(speed): the speed sent between double quotes
Metrohm781_set_speed(speed) ==
    LET Outcome(x) ==
        OpRes(x.out, Metrohm781Session.command_terminator, 0, x.frames)
    IN  Only({Outcome(x) : x \in {send(Metrohm781Session, Metrohm781_SET_SPEED,
                                       StrArg(Quoted(Str(speed))), ConnFail, 0)}})

-----------------------------------------------------------------------------
(* Cadent 3 pump: operations that wait for the pump to be ready *)

\* status polls one wait makes before it gives up
MaxAttempts == 3

\* one thing a call has to do: execute_when_ready(self.send, cmd, arg), or
\* wait_until_ready()
Step(kind, cmd, arg) == [kind |-> kind, cmd |-> cmd, arg |-> arg]

\* what the body of an operation comes to: the exception it raises before it
\* does anything ("none": it raises none) and the steps it takes
PlanOf(steps) == [exc |-> "none", steps |-> steps]

NoPlan(exc) == [exc |-> exc, steps |-> <<>>]

\* the command move_plunger_absolute() picks
Cadent3_MoveAbs(set_busy) ==
    IF set_busy THEN Cadent3_SYR_MOVE_ABS ELSE Cadent3_SYR_MOVE_ABS_NOBUSY

\* move_plunger_absolute(position, set_busy)
move_plunger_absolute(position, set_busy) ==
    PlanOf(<<Step("execute_when_ready", Cadent3_MoveAbs(set_busy), IntArg(position))>>)

\* a plausible slip: the command is sent once directly and once when ready
dispense_SendTwice(increments, set_busy) ==
    IF ~increments.given THEN NoPlan("PLDeviceCommandError")
    ELSE LET cmd == IF set_busy THEN Cadent3_SYR_SPIT_REL
                    ELSE Cadent3_SYR_SPIT_REL_NOBUSY IN
         PlanOf(<<Step("execute_when_ready", cmd, increments),
                  Step("execute_when_ready", cmd, increments)>>)

\* dispense(increments=increments, set_busy=set_busy), no volume_ml given
dispense(increments, set_busy) ==
    IF ~increments.given THEN NoPlan("PLDeviceCommandError")
    ELSE LET cmd == IF set_busy THEN Cadent3_SYR_SPIT_REL
                    ELSE Cadent3_SYR_SPIT_REL_NOBUSY IN
         PlanOf(<<Step("execute_when_ready", cmd, increments)>>)

\* withdraw(increments=increments, set_busy=set_busy), no volume_ml given
withdraw(increments, set_busy) ==
    IF ~increments.given THEN NoPlan("PLDeviceCommandError")
    ELSE LET cmd == IF set_busy THEN Cadent3_SYR_SUCK_REL
                    ELSE Cadent3_SYR_SUCK_REL_NOBUSY IN
         PlanOf(<<Step("execute_when_ready", cmd, increments)>>)

\* Cadent3SyringePumpCommands.VALVE_POSITIONS: range(1, 16)
VALVE_POSITIONS == 1..15

\* a plausible slip: the modifiers of the two directions the wrong way round
set_valve_position_SignsSwapped(requested_position, override_direction) ==
    IF override_direction \notin {"None", "CW", "CCW"} THEN NoPlan("PLDeviceCommandError")
    ELSE IF requested_position \notin 1..15 THEN NoPlan("PLDeviceCommandError")
    ELSE LET dir_modifier == IF override_direction = "None" THEN <<>>
                             ELSE IF override_direction = "CW" THEN <<45>> ELSE <<43>> IN
         PlanOf(<<Step("execute_when_ready", Cadent3_VALVE_MOVE,
                       StrArg(dir_modifier \o Str(requested_position)))>>)

\* set_valve_position(requested_position, override_direction) for an int
\* position; the direction "None" is Python's None
set_valve_position(requested_position, override_direction) ==
    IF override_direction \notin {"None", "CW", "CCW"} THEN NoPlan("PLDeviceCommandError")
    ELSE IF requested_position \notin VALVE_POSITIONS THEN NoPlan("PLDeviceCommandError")
    ELSE LET dir_modifier == IF override_direction = "None" THEN <<>>
                             ELSE IF override_direction = "CW" THEN <<43>> ELSE <<45>> IN
         PlanOf(<<Step("execute_when_ready", Cadent3_VALVE_MOVE,
                       StrArg(dir_modifier \o Str(requested_position)))>>)

\* wait_until_ready() after a poll: made polls so far, the last one idle or not
wait_until_ready(made, idle) ==
    IF idle THEN "ready" ELSE IF made >= MaxAttempts THEN "timeout" ELSE "again"

\* the replies the transport hands back: none in time, a frame without a
\* status byte, or a frame with a status byte and a payload
ReplyBody(status, payload) ==
    Frame(Cadent3_reply_prefix, <<status>> \o payload, Cadent3_reply_terminator)

EmptyReply == Frame(Cadent3_reply_prefix, <<>>, Cadent3_reply_terminator)

\* to a status query
StatusReplies == {ConnFail, EmptyReply} \cup {ReplyBody(st, <<>>) : st \in {64, 96, 71, 109}}

\* to a query or a motion command: payloads "", "12" and "x"
Replies == {ConnFail, EmptyReply, ReplyBody(64, <<>>), ReplyBody(96, <<49, 50>>),
            ReplyBody(96, <<120>>), ReplyBody(71, <<>>), ReplyBody(109, <<>>)}

\* to a velocity query or setting
VelocityReplies == {ConnFail, ReplyBody(96, <<49, 50>>), ReplyBody(71, <<>>)}

\* what the pump reported in a reply to a status query, read off the byte it sent
Observation(reply) ==
    IF reply = ConnFail THEN "Disconnected"
    ELSE IF reply = EmptyReply THEN "Malformed"
    ELSE LET status == reply[Len(Cadent3_reply_prefix) + 1] IN
         IF status % 32 # 0 THEN "Errored"
         ELSE IF (status \div 32) % 2 = 1 THEN "Idle" ELSE "Busy"

\* the arguments drawn
IncrementArgs == {NoArg, IntArg(2000)}

VelocityArgs == {0, 1, 10000, 10001}

\* no command was issued, so none was answered
NoReply == <<-5>>

OpCall(op, arg, dir) == [op |-> op, arg |-> arg, dir |-> dir, before |-> command_terminator]

\* the pump after its constructor: autorun on, no status byte seen, no call made
OpsInit ==
    /\ command_terminator = RunTerminator
    /\ wire = <<>>
    /\ opCall = [op |-> "none", arg |-> 0, dir |-> "", before |-> RunTerminator]
    /\ opOut = NoOutcome
    /\ plan = <<>>
    /\ phase = "idle"
    /\ attempts = 0
    /\ observed = "none"
    /\ cmdReply = NoReply

OpsFrame == UNCHANGED <<varsStrip, varsBus, varsShare, varsSim, dDevice, dCmd, dBody, dSent, dOut>>

\* a call made of whole send() calls, from its start to its end; obs is what
\* the pump reported when the call is one status query ("none" otherwise)
Finish(op, arg, res, obs) ==
    /\ phase = "idle"
    /\ opCall' = OpCall(op, arg, "")
    /\ \E r \in {res} :
        /\ wire' = r.frames
        /\ opOut' = r.out
        /\ command_terminator' = r.command_terminator
        /\ last_status' = r.last_status
    /\ cmdReply' = NoReply
    /\ attempts' = 0
    /\ observed' = obs
    /\ UNCHANGED <<plan, phase>>
    /\ OpsFrame

\* a call that waits: its body up to the first wait
Begin(op, arg, dir, p) ==
    /\ phase = "idle"
    /\ opCall' = OpCall(op, arg, dir)
    /\ wire' = <<>>
    /\ attempts' = 0
    /\ observed' = "none"
    /\ cmdReply' = NoReply
    /\ IF p.exc # "none"
       THEN /\ opOut' = Raised(p.exc, "", <<>>)
            /\ UNCHANGED <<plan, phase>>
       ELSE /\ opOut' = NoOutcome
            /\ plan' = p.steps
            /\ phase' = "waiting"
    /\ UNCHANGED <<command_terminator, last_status>>
    /\ OpsFrame

\* the running call ends with the outcome
EndCall(out) ==
    /\ opOut' = out
    /\ plan' = <<>>
    /\ phase' = "idle"

\* the step at the head of the plan is done, after made polls
Advance(made) ==
    IF Len(plan) = 1
    THEN EndCall(Returned("none", <<>>, <<>>)) /\ attempts' = made
    ELSE /\ plan' = Tail(plan)
         /\ phase' = "waiting"
         /\ attempts' = 0
         /\ UNCHANGED opOut

\* one round of wait_until_ready(): is_idle() is called, and the wait goes on,
\* ends, or gives up
Poll ==
    /\ phase = "waiting"
    /\ \E reply \in StatusReplies :
      \E x \in {is_idle(command_terminator, last_status, reply)} :
        LET made == attempts + 1 IN
        /\ wire' = wire \o x.frames
        /\ command_terminator' = x.command_terminator
        /\ last_status' = x.last_status
        /\ observed' = Observation(reply)
        /\ IF x.out.exc # "none"
           THEN EndCall(x.out) /\ attempts' = made
           ELSE LET w == wait_until_ready(made, x.out.value = <<1>>) IN
                IF w = "timeout"
                THEN EndCall(Raised("Timeout", "device not ready", <<>>)) /\ attempts' = made
                ELSE IF w = "again"
                THEN attempts' = made /\ UNCHANGED <<opOut, plan, phase>>
                ELSE IF Head(plan).kind = "wait_until_ready"
                THEN Advance(made)
                ELSE phase' = "ready" /\ attempts' = made /\ UNCHANGED <<opOut, plan>>
    /\ UNCHANGED <<opCall, cmdReply>>
    /\ OpsFrame

\* execute_when_ready() after its wait: the command is sent
Issue ==
    /\ phase = "ready"
    /\ \E reply \in Replies :
      \E x \in {send(Cadent3Session(command_terminator), Head(plan).cmd, Head(plan).arg,
                     reply, last_status)} :
        /\ wire' = wire \o x.frames
        /\ last_status' = x.last_status
        /\ cmdReply' = reply
        /\ IF x.out.exc # "none"
           THEN EndCall(x.out) /\ UNCHANGED attempts
           ELSE Advance(attempts)
    /\ UNCHANGED <<opCall, command_terminator, observed>>
    /\ OpsFrame

MovePlungerAbsolute ==
    \E position \in {-1, 0, 3000, 6000, 6001}, set_busy \in BOOLEAN :
        Begin(IF set_busy THEN "move_plunger_absolute" ELSE "move_plunger_absolute_nobusy",
              position, "", move_plunger_absolute(position, set_busy))

Dispense ==
    \E increments \in IncrementArgs, set_busy \in BOOLEAN :
        Begin("dispense", increments.int, "", dispense(increments, set_busy))

Withdraw ==
    \E increments \in IncrementArgs, set_busy \in BOOLEAN :
        Begin("withdraw", increments.int, "", withdraw(increments, set_busy))

SetValvePosition ==
    \E requested_position \in {0, 1, 15, 16},
       override_direction \in {"None", "CW", "CCW", "UP"} :
        Begin("set_valve_position", requested_position, override_direction,
              set_valve_position(requested_position, override_direction))

WaitUntilReady ==
    Begin("wait_until_ready", 0, "",
          PlanOf(<<Step("wait_until_ready", Cadent3_GET_STATUS, NoArg)>>))

\* pump.autorun = value
SetAutorun ==
    \E value \in BOOLEAN :
        Finish("autorun", IF value THEN 1 ELSE 0,
               OpRes(Returned("none", <<>>, <<>>), autorun_setter(value), last_status, <<>>), "none")

GetStatus ==
    \E reply \in Replies :
        Finish("get_status", 0, get_status(command_terminator, last_status, reply),
               Observation(reply))

IsIdle ==
    \E reply \in StatusReplies :
        Finish("is_idle", 0, is_idle(command_terminator, last_status, reply),
               Observation(reply))

IsInitialized ==
    \E reply \in StatusReplies :
        Finish("is_initialized", 0, is_initialized(command_terminator, last_status, reply),
               Observation(reply))

IsConnected ==
    \E reply \in Replies :
        Finish("is_connected", 0, is_connected(command_terminator, last_status, reply), "none")

GetPlungerPosition ==
    \E reply \in Replies :
        Finish("get_plunger_position", 0,
               get_plunger_position(command_terminator, last_status, reply), "none")

GetValvePosition ==
    \E reply \in Replies :
        Finish("get_valve_position", 0,
               get_valve_position(command_terminator, last_status, reply), "none")

GetRampSlope ==
    \E reply \in Replies :
        Finish("get_ramp_slope", 0, get_ramp_slope(command_terminator, last_status, reply), "none")

GetVelocities ==
    \E replies \in VelocityReplies \X VelocityReplies \X VelocityReplies :
        Finish("get_velocities", 0,
               get_velocities(command_terminator, last_status, replies), "none")

GetValveType ==
    \E reply \in Replies :
        Finish("get_valve_type", 0, get_valve_type(command_terminator, last_status, reply), "none")

GetPumpResolution ==
    \E reply \in Replies :
        Finish("get_pump_resolution", 0,
               get_pump_resolution(command_terminator, last_status, reply), "none")

SetStartVelocity ==
    \E v \in VelocityArgs, reply \in VelocityReplies :
        Finish("set_start_velocity", v,
               set_start_velocity(command_terminator, last_status, v, reply), "none")

SetMaxVelocity ==
    \E v \in VelocityArgs, reply \in VelocityReplies :
        Finish("set_max_velocity", v,
               set_max_velocity(command_terminator, last_status, v, reply), "none")

SetStopVelocity ==
    \E v \in VelocityArgs, reply \in VelocityReplies :
        Finish("set_stop_velocity", v,
               set_stop_velocity(command_terminator, last_status, v, reply), "none")

SetSpeed ==
    \E v \in VelocityArgs, reply \in VelocityReplies :
        Finish("set_speed", v, Cadent3_set_speed(command_terminator, last_status, v, reply), "none")

\* the Metrohm 781 meter's set_speed(); the pump's settings are not its own
MetrohmSetSpeed ==
    \E speed \in {0, 1, 15, 16} :
      \E x \in {Metrohm781_set_speed(speed)} :
        Finish("metrohm781.set_speed", speed,
               OpRes(x.out, command_terminator, last_status, x.frames), "none")

OpsNext ==
    \/ GetStatus \/ IsIdle \/ IsInitialized \/ IsConnected
    \/ GetPlungerPosition \/ GetValvePosition \/ GetRampSlope \/ GetVelocities
    \/ GetValveType \/ GetPumpResolution
    \/ SetStartVelocity \/ SetMaxVelocity \/ SetStopVelocity \/ SetSpeed
    \/ MetrohmSetSpeed \/ SetAutorun
    \/ MovePlungerAbsolute \/ Dispense \/ Withdraw \/ SetValvePosition \/ WaitUntilReady
    \/ Poll \/ Issue


-----------------------------------------------------------------------------
(* Configuration operations: the pump's initialize_device() and            *)
(* set_valve_type(), and the KDP3000 balance's calibrate()                 *)

\* "Y4", "Z4"
Cadent3_INIT_ALL_Y == [reply_type |-> "str", name |-> <<89, 52>>]

Cadent3_INIT_ALL_Z == [reply_type |-> "str", name |-> <<90, 52>>]

\* "~Y", "~Z"
Cadent3_SET_VALVE_Y_POS == [reply_type |-> "str", name |-> <<126, 89>>, type |-> "str"]

Cadent3_SET_VALVE_Z_POS == [reply_type |-> "str", name |-> <<126, 90>>, type |-> "str"]

\* "!"
Cadent3_SAVE_TO_NVM == [reply_type |-> "str", name |-> <<33>>]

\* initialize_device(init_pos, input_port, output_port) up to its
\* wait_until_ready(); a port is None (not given) or an int
initialize_device(terminator, old, init_pos, input_port, output_port, replies) ==
    LET quiet == Cadent3Session(autorun_setter(FALSE))
        cmd == IF init_pos = "in" THEN Cadent3_INIT_ALL_Y ELSE Cadent3_INIT_ALL_Z
        Invalid(message) == Raised("PLDeviceCommandError", message, <<>>)
        AfterInit(frames, x) ==
            OpRes(x.out, autorun_setter(TRUE), x.last_status, frames \o x.frames)
        Init(frames, status) ==
            Only({AfterInit(frames, x) :
                  x \in {send(Cadent3Session(autorun_setter(TRUE)), cmd, NoArg,
                              replies[3], status)}})
        AfterZ(frames, z) ==
            IF z.out.exc # "none"
            THEN OpRes(z.out, autorun_setter(FALSE), z.last_status, frames \o z.frames)
            ELSE Init(frames \o z.frames, z.last_status)
        Output(frames, status) ==
            IF ~output_port.given THEN Init(frames, status)
            ELSE IF output_port.int \notin VALVE_POSITIONS
            THEN OpRes(Invalid("Invalid port for initialization was provided!"),
                       autorun_setter(FALSE), status, frames)
            ELSE Only({AfterZ(frames, z) :
                       z \in {send(quiet, Cadent3_SET_VALVE_Z_POS,
                                   StrArg(Str(output_port.int)), replies[2], status)}})
        AfterY(y) ==
            IF y.out.exc # "none"
            THEN OpRes(y.out, autorun_setter(FALSE), y.last_status, y.frames)
            ELSE Output(y.frames, y.last_status)
    IN  IF init_pos \notin {"in", "out"}
        THEN OpRes(Invalid("Invalid direction for valve initialization provided!"),
                   terminator, old, <<>>)
        ELSE IF ~input_port.given THEN Output(<<>>, old)
        ELSE IF input_port.int \notin VALVE_POSITIONS
        THEN OpRes(Invalid("Invalid port for initialization was provided!"),
                   autorun_setter(FALSE), old, <<>>)
        ELSE Only({AfterY(y) :
                   y \in {send(quiet, Cadent3_SET_VALVE_Y_POS,
                               StrArg(Str(input_port.int)), replies[1], old)}})

\* set_valve_type(valve_type, confirm) for a valve type given by its name, the
\* code of which is one character
set_valve_type(terminator, old, valve_type, confirm, replies) ==
    LET quiet == Cadent3Session(autorun_setter(FALSE))
        Done == Returned("none", <<>>, <<>>)
        AfterSave(x, y) ==
            IF y.out.exc # "none"
            THEN OpRes(y.out, autorun_setter(FALSE), y.last_status, x.frames \o y.frames)
            ELSE OpRes(Done, autorun_setter(TRUE), y.last_status, x.frames \o y.frames)
        AfterSet(x) ==
            IF x.out.exc # "none"
            THEN OpRes(x.out, autorun_setter(FALSE), x.last_status, x.frames)
            ELSE IF ~confirm
            THEN OpRes(Done, autorun_setter(TRUE), x.last_status, x.frames)
            ELSE Only({AfterSave(x, y) :
                       y \in {send(quiet, Cadent3_SAVE_TO_NVM, NoArg, replies[2],
                                   x.last_status)}})
    IN  IF valve_type \notin DOMAIN VALVE_TYPES
        THEN OpRes(Raised("PLDeviceCommandError", "Invalid valve type requested!", <<>>),
                   terminator, old, <<>>)
        ELSE Only({AfterSet(x) :
                   x \in {send(quiet, Cadent3_GET_SET_VALVE_TYPE,
                               StrArg(<<CharCode[VALVE_TYPES[valve_type]]>>),
                               replies[1], old)}})

\* "JZ", "JG", "JS"
KDP3000_CALIBRATE_ZERO == [reply_type |-> "str", name |-> <<74, 90>>]

KDP3000_CALIBRATE_MAX == [reply_type |-> "str", name |-> <<74, 71>>]

KDP3000_CALIBRATION_SAVE == [reply_type |-> "str", name |-> <<74, 83>>]

\* the protocol settings of the KDP3000 balance
KDP3000Session ==
    [command_terminator |-> <<13, 10>>,
     command_prefix |-> <<>>,
     args_delimiter |-> <<32>>,
     device |-> "kdp3000"]

\* the balance's answer to a command: the command echoed, a response code
KDP3000Reply(cmd, code) == cmd.name \o <<32>> \o code \o KDP3000_reply_terminator

\* the balance's send(cmd): the outcome of the exchange
KDP3000_send(cmd, reply) ==
    IF reply = ConnFail THEN Raised("PLConnectionError", "no reply", <<>>)
    ELSE KDP3000_parse_reply(cmd, reply, 0).out

\* calibrate(internal); codes are the response codes the balance gives to the
\* three commands, <<>> for no reply in time
calibrate(internal, codes) ==
    LET None_ == Returned("none", <<>>, <<>>)
        Frame_(cmd) == encode(KDP3000Session, cmd, NoArg)
        Answer(cmd, code) == IF code = <<>> THEN ConnFail ELSE KDP3000Reply(cmd, code)
        AfterSave(z) ==
            IF z.exc = "PLDeviceError" THEN None_
            ELSE IF z.exc # "none" THEN z
            ELSE None_
        AfterMax(y) ==
            IF y.exc = "PLDeviceError" THEN [out |-> None_, sent |-> 2]
            ELSE IF y.exc # "none" THEN [out |-> y, sent |-> 2]
            ELSE [out |-> Only({AfterSave(z) :
                                z \in {KDP3000_send(KDP3000_CALIBRATION_SAVE,
                                                    Answer(KDP3000_CALIBRATION_SAVE,
                                                           codes[3]))}}),
                  sent |-> 3]
        AfterZero(x) ==
            IF x.exc = "PLDeviceError" THEN [out |-> None_, sent |-> 1]
            ELSE IF x.exc # "none" THEN [out |-> x, sent |-> 1]
            ELSE Only({AfterMax(y) :
                       y \in {KDP3000_send(KDP3000_CALIBRATE_MAX,
                                           Answer(KDP3000_CALIBRATE_MAX, codes[2]))}})
        Frames(n) == SubSeq(<<Frame_(KDP3000_CALIBRATE_ZERO), Frame_(KDP3000_CALIBRATE_MAX),
                              Frame_(KDP3000_CALIBRATION_SAVE)>>, 1, n)
        Result(r) == [out |-> r.out, frames |-> Frames(r.sent)]
    IN  IF internal THEN [out |-> None_, frames |-> <<>>]
        ELSE Only({Result(r) :
                   r \in {Only({AfterZero(x) :
                                x \in {KDP3000_send(KDP3000_CALIBRATE_ZERO,
                                                    Answer(KDP3000_CALIBRATE_ZERO,
                                                           codes[1]))}})}})

InitializeDevice ==
    \E init_pos \in {"in", "out", "up"},
       input_port \in {NoArg, IntArg(1), IntArg(16)},
       output_port \in {NoArg, IntArg(15), IntArg(0)},
       replies \in VelocityReplies \X VelocityReplies \X VelocityReplies :
      \E r \in {initialize_device(command_terminator, last_status, init_pos,
                                  input_port, output_port, replies)} :
        /\ phase = "idle"
        /\ opCall' = OpCall("initialize_device",
                            IF input_port.given THEN input_port.int ELSE 0, init_pos)
        /\ wire' = r.frames
        /\ command_terminator' = r.command_terminator
        /\ last_status' = r.last_status
        /\ cmdReply' = NoReply
        /\ attempts' = 0
        /\ observed' = "none"
        /\ IF r.out.exc # "none"
           THEN opOut' = r.out /\ UNCHANGED <<plan, phase>>
           ELSE /\ opOut' = NoOutcome
                /\ plan' = <<Step("wait_until_ready", Cadent3_GET_STATUS, NoArg)>>
                /\ phase' = "waiting"
        /\ OpsFrame

SetValveType ==
    \E valve_type \in ValveTypeArgs, confirm \in BOOLEAN,
       replies \in VelocityReplies \X VelocityReplies :
        Finish("set_valve_type", IF confirm THEN 1 ELSE 0,
               set_valve_type(command_terminator, last_status, valve_type, confirm, replies),
               "none")

\* the KDP3000 balance's calibrate(); the pump's settings are not its own
Calibrate ==
    \E internal \in BOOLEAN,
       codes \in {<<>>, <<65>>, <<76>>} \X {<<>>, <<65>>, <<76>>} \X {<<>>, <<65>>, <<76>>} :
      \E x \in {calibrate(internal, codes)} :
        Finish("kdp3000.calibrate", IF internal THEN 1 ELSE 0,
               OpRes(x.out, command_terminator, last_status, x.frames),
               IF ~internal /\ codes = <<<<65>>, <<65>>, <<65>>>>
               THEN "Acknowledged" ELSE "none")

CfgNext ==
    \/ InitializeDevice \/ SetValveType \/ Calibrate
    \/ SetAutorun \/ Poll

-----------------------------------------------------------------------------
(* Cadent 3 pump: transfer() and prime_pump(), made of valve and plunger   *)
(* moves each run through execute_when_ready()                             *)

\* full strokes of the largest transfer, cycles of the longest priming
MaxStrokes == 1
MaxCycles == 1

\* status polls answered "not ready yet" (busy, or no reply) in one call
MaxBusy == 1

\* execute_when_ready(operation, ...): a wait, then the operation, which waits
\* again before it sends its command
WhenReady(operation) ==
    <<Step("wait_until_ready", Cadent3_GET_STATUS, NoArg)>> \o operation.steps

\* a plausible slip: the valve goes to port_to before the plunger fills
transfer_PortsSwapped(port_from, port_to, increments) ==
    LET complete_strokes == increments \div 6000
        remainder == increments % 6000
        Cycle(amount) ==
            WhenReady(set_valve_position(port_to, "None"))
                \o WhenReady(move_plunger_absolute(amount, TRUE))
                \o WhenReady(set_valve_position(port_from, "None"))
                \o WhenReady(move_plunger_absolute(0, TRUE))
        Full == [i \in 1..(8 * complete_strokes) |-> Cycle(6000)[((i - 1) % 8) + 1]]
    IN  PlanOf(Full \o (IF remainder # 0 THEN Cycle(remainder) ELSE <<>>)
                    \o <<Step("wait_until_ready", Cadent3_GET_STATUS, NoArg)>>)

\* a plausible slip: the strokes are done, the remainder is forgotten
transfer_NoRemainder(port_from, port_to, increments) ==
    LET complete_strokes == increments \div 6000
        Cycle(amount) ==
            WhenReady(set_valve_position(port_from, "None"))
                \o WhenReady(move_plunger_absolute(amount, TRUE))
                \o WhenReady(set_valve_position(port_to, "None"))
                \o WhenReady(move_plunger_absolute(0, TRUE))
        Full == [i \in 1..(8 * complete_strokes) |-> Cycle(6000)[((i - 1) % 8) + 1]]
    IN  PlanOf(Full \o <<Step("wait_until_ready", Cadent3_GET_STATUS, NoArg)>>)

\* transfer(port_from, port_to, volume_ml) for valid ports, with increments
\* the int volume_ml * self.steps_per_ml: range(complete_strokes) full cycles,
\* a cycle for the remainder if there is one, and the final wait
transfer(port_from, port_to, increments) ==
    LET complete_strokes == increments \div 6000
        remainder == increments % 6000
        Cycle(amount) ==
            WhenReady(set_valve_position(port_from, "None"))
                \o WhenReady(move_plunger_absolute(amount, TRUE))
                \o WhenReady(set_valve_position(port_to, "None"))
                \o WhenReady(move_plunger_absolute(0, TRUE))
        Full == [i \in 1..(8 * complete_strokes) |-> Cycle(6000)[((i - 1) % 8) + 1]]
    IN  PlanOf(Full \o (IF remainder # 0 THEN Cycle(remainder) ELSE <<>>)
                    \o <<Step("wait_until_ready", Cadent3_GET_STATUS, NoArg)>>)

\* a plausible slip: the plunger is not emptied at the end of a cycle
prime_pump_EndsFull(port, cycles, increments) ==
    LET Cycle == WhenReady(move_plunger_absolute(increments, TRUE))
                     \o <<Step("wait_until_ready", Cadent3_GET_STATUS, NoArg)>>
    IN  PlanOf(WhenReady(set_valve_position(port, "None"))
                   \o WhenReady(move_plunger_absolute(0, TRUE))
                   \o [i \in 1..(3 * cycles) |-> Cycle[((i - 1) % 3) + 1]]
                   \o <<Step("wait_until_ready", Cadent3_GET_STATUS, NoArg)>>)

\* prime_pump(port, cycles, increments) for a valid port: the valve move, the
\* move to 0, then per cycle a move to increments, a move to 0 and a wait,
\* and the final wait
prime_pump(port, cycles, increments) ==
    LET Cycle == WhenReady(move_plunger_absolute(increments, TRUE))
                     \o WhenReady(move_plunger_absolute(0, TRUE))
                     \o <<Step("wait_until_ready", Cadent3_GET_STATUS, NoArg)>>
    IN  PlanOf(WhenReady(set_valve_position(port, "None"))
                   \o WhenReady(move_plunger_absolute(0, TRUE))
                   \o [i \in 1..(5 * cycles) |-> Cycle[((i - 1) % 5) + 1]]
                   \o <<Step("wait_until_ready", Cadent3_GET_STATUS, NoArg)>>)

\* the increments transferred: none, less than a stroke, whole strokes, whole
\* strokes and a rest, and a negative volume
TransferArgs ==
    {-1, 0, 1} \cup {6000 * k : k \in 1..MaxStrokes} \cup {6000 * k + 1 : k \in 1..MaxStrokes}

\* the call is the first one made on the pump
Transfer ==
    /\ opCall.op = "none"
    /\ \E port_from \in {1, 2}, port_to \in {1, 2}, increments \in TransferArgs :
        Begin("transfer",
              [increments |-> increments, port_from |-> port_from, port_to |-> port_to],
              "", transfer(port_from, port_to, increments))

PrimePump ==
    /\ opCall.op = "none"
    /\ \E port \in {1, 15}, cycles \in 0..MaxCycles, increments \in {0, 2000} :
        Begin("prime_pump",
              [port |-> port, increments |-> increments, cycles |-> cycles],
              "", prime_pump(port, cycles, increments))

\* the steps of the running (or last) call
CallSteps ==
    IF opCall.op = "transfer"
    THEN transfer(opCall.arg.port_from, opCall.arg.port_to, opCall.arg.increments).steps
    ELSE IF opCall.op = "prime_pump"
    THEN prime_pump(opCall.arg.port, opCall.arg.cycles, opCall.arg.increments).steps
    ELSE <<>>

\* the status polls of the call so far that were answered "not ready yet":
\* every other poll ended a wait
BusyPolls(w, left) ==
    Len(SelectSeq(w, LAMBDA f : f = encode(Cadent3Session(NoRunTerminator),
                                           Cadent3_GET_STATUS, NoArg)))
        - (Len(CallSteps) - left)

\* a poll of the running call; the pump keeps a call waiting MaxBusy times
XferPoll ==
    /\ Poll
    /\ (phase' = "waiting" /\ plan' = plan) => BusyPolls(wire', Len(plan)) <= MaxBusy

XferNext == Transfer \/ PrimePump \/ XferPoll \/ Issue

-----------------------------------------------------------------------------
(* Pumps of one port sending commands from their own threads *)

\* exchanges one pump starts
MaxSends == 1

\* connection.transmit(message) by pump p: the device will answer p's command
LabDevice_transmit(ln, c, p) == [ln EXCEPT ![c] = Append(@, p)]

\* connection.receive(): the oldest reply not yet read is taken off the line
LabDevice_receive(ln, c) == [ln EXCEPT ![c] = Tail(@)]

\* no command written, no reply read
ShareInit ==
    /\ line = [c \in Pumps |-> <<>>]
    /\ got = [p \in Pumps |-> 0]
    /\ sends = [p \in Pumps |-> 0]

\* a pump is constructed on the port
SendConstruct ==
    /\ Construct(SharedPort, "3PORT_NDISTR", "1")
    /\ UNCHANGED <<varsShare, varsSim>>

\* a pump connects
SendConnect(p) ==
    /\ Connect(p)
    /\ UNCHANGED <<varsShare, varsSim>>

\* send(), first half: pump p writes its command to its connection
SendWrite(p) ==
    /\ pumpState[p] = "live" /\ pc[p] = "idle"
    /\ connOpen[connection[p]]
    /\ sends[p] < MaxSends
    /\ line' = LabDevice_transmit(line, connection[p], p)
    /\ sends' = [sends EXCEPT ![p] = @ + 1]
    /\ pc' = [pc EXCEPT ![p] = "sent"]
    /\ UNCHANGED <<BUS_DEVICES, pumpState, pumpPort, connection, connOpen, current_refs,
                   entry_read, connected, disconnected, opens, closes, orderly, binds,
                   unbinds, lastCall, got>>
    /\ UNCHANGED <<varsStrip, varsDecode, varsOps, varsSim>>

\* send(), second half: pump p reads a reply from its connection
SendRead(p) ==
    /\ pc[p] = "sent"
    /\ line[connection[p]] # <<>>
    /\ got' = [got EXCEPT ![p] = Head(line[connection[p]])]
    /\ line' = LabDevice_receive(line, connection[p])
    /\ pc' = [pc EXCEPT ![p] = "idle"]
    /\ UNCHANGED <<BUS_DEVICES, pumpState, pumpPort, connection, connOpen, current_refs,
                   entry_read, connected, disconnected, opens, closes, orderly, binds,
                   unbinds, lastCall, sends>>
    /\ UNCHANGED <<varsStrip, varsDecode, varsOps, varsSim>>

ShareNext ==
    \/ SendConstruct
    \/ \E p \in Pumps : SendConnect(p) \/ SendWrite(p) \/ SendRead(p)

-----------------------------------------------------------------------------
(* Simulation mode: operations called on pumps some of which are simulated *)

\* the decorator in_simulation_device_returns(value): on a simulated device the
\* decorated method returns the value and its body, which would make the
\* transport calls, is not run
in_simulation_device_returns(simulated, calls) == IF simulated THEN {} ELSE calls

\* the base class's connect() and disconnect(): on a simulated device the
\* transport is left alone
LabDevice_simulated(simulated, calls) == IF simulated THEN {} ELSE calls

\* no pump is simulated, no operation has been called
SimInit ==
    /\ simulation = [p \in Pumps |-> FALSE]
    /\ invoked = [p \in Pumps |-> {}]
    /\ simCall = [op |-> "none", pump |-> 0]

\* operation op of pump p invokes the transport methods in calls
Invoke(op, p, calls) ==
    /\ invoked' = [invoked EXCEPT ![p] = @ \cup calls]
    /\ simCall' = [op |-> op, pump |-> p]
    /\ UNCHANGED simulation

\* a pump is constructed on the port and its simulation property is set
SimConstruct ==
    \E sim \in BOOLEAN :
        /\ Construct(SharedPort, "3PORT_NDISTR", "1")
        /\ simulation' = [simulation EXCEPT ![NextPump] = sim]
        /\ simCall' = [op |-> "init", pump |-> NextPump]
        /\ UNCHANGED <<invoked, varsShare>>

\* connect() of pump p: self.connection.is_connection_open() is asked first
SimConnect(p) ==
    /\ Quiescent
    /\ pumpState[p] = "live"
    /\ Invoke("connect", p,
              {"is_connection_open"}
                  \cup (IF connOpen[connection[p]] THEN {}
                        ELSE LabDevice_simulated(simulation[p], {"open_connection"})))
    /\ IF simulation[p]
       THEN UNCHANGED <<varsBus, varsStrip, varsDecode, varsOps>>
       ELSE Connect(p)
    /\ UNCHANGED varsShare

\* disconnect() of pump p: self.connection.is_connection_open() is asked first;
\* a simulated pump that finds the connection open goes on to the registry
SimDisconnect(p) ==
    LET port == pumpPort[p]
        open == connOpen[connection[p]]
        last == port \in DOMAIN BUS_DEVICES /\ BUS_DEVICES[port].pumps - 1 = 0
    IN
    /\ Quiescent
    /\ pumpState[p] = "live"
    /\ Invoke("disconnect", p,
              {"is_connection_open"}
                  \cup (IF open /\ last
                        THEN LabDevice_simulated(simulation[p], {"close_connection"})
                        ELSE {}))
    /\ IF simulation[p]
       THEN /\ BUS_DEVICES' = IF ~open \/ port \notin DOMAIN BUS_DEVICES THEN BUS_DEVICES
                              ELSE IF last THEN Pop(BUS_DEVICES, port)
                              ELSE [BUS_DEVICES EXCEPT ![port].pumps = @ - 1]
            /\ UNCHANGED <<pumpState, pumpPort, connection, connOpen, pc, current_refs,
                           entry_read, connected, disconnected, opens, closes, orderly,
                           binds, unbinds, lastCall>>
            /\ UNCHANGED <<varsStrip, varsDecode, varsOps>>
       ELSE Disconnect(p)
    /\ UNCHANGED varsShare

\* is_idle() of pump p, decorated: the body sends the status query and reads
\* the reply
SimIsIdle(p) ==
    /\ Quiescent
    /\ pumpState[p] = "live"
    /\ Invoke("is_idle", p,
              in_simulation_device_returns(simulation[p], {"transmit", "receive"}))
    /\ UNCHANGED <<varsBus, varsStrip, varsDecode, varsOps, varsShare>>

\* is_initialized() of pump p, decorated: the same body
SimIsInitialized(p) ==
    /\ Quiescent
    /\ pumpState[p] = "live"
    /\ Invoke("is_initialized", p,
              in_simulation_device_returns(simulation[p], {"transmit", "receive"}))
    /\ UNCHANGED <<varsBus, varsStrip, varsDecode, varsOps, varsShare>>

SimNext ==
    \/ SimConstruct
    \/ \E p \in Pumps : SimConnect(p) \/ SimDisconnect(p) \/ SimIsIdle(p) \/ SimIsInitialized(p)

-----------------------------------------------------------------------------
(* Specifications *)

\* stripper applied to drawn arguments
InitStrip == StripInit /\ DecodeIdle /\ BusInit /\ OpsInit /\ ShareInit /\ SimInit

SpecStrip == InitStrip /\ [][StripNext]_vars

\* one drawn reply decoded by parse_reply
InitDecode == DecodeInit /\ StripIdle /\ BusInit /\ OpsInit /\ ShareInit /\ SimInit

SpecDecode == InitDecode /\ [][DecodeNext]_vars

\* no pump constructed yet
InitBus == BusInit /\ StripIdle /\ DecodeIdle /\ OpsInit /\ ShareInit /\ SimInit

\* pumps constructed, connected and disconnected one call at a time
SpecBus == InitBus /\ [][BusNext]_vars

\* pumps constructed, connected and disconnected by concurrent threads
SpecConc == InitBus /\ [][ConcNext]_vars

\* the operations of one connected pump, one call after another
InitOps == OpsInit /\ StripIdle /\ DecodeIdle /\ BusInit /\ ShareInit /\ SimInit

SpecOps == InitOps /\ [][OpsNext]_vars

\* the configuration operations of the pump and of the balance
SpecCfg == InitOps /\ [][CfgNext]_vars

\* transfers and primings, run to their end
SpecXfer == InitOps /\ [][XferNext]_vars

\* operations called on real and on simulated pumps
SpecSim == InitBus /\ [][SimNext]_vars

\* pumps constructed on one port one after another, then sending concurrently
SpecShare == InitBus /\ [][ShareNext]_vars


-----------------------------------------------------------------------------
(* Claims about connection sharing (under SpecBus) *)

\* the pumps constructed on a port that have not disconnected
Live(port) == Built(port) \ disconnected

\* every connection object a pump of the port holds is closed
AllClosed(port) == \A p \in Built(port) : ~connOpen[connection[p]]

(* C1: connection sharing.  When N pumps are constructed on one port and   *)
(* each calls connect(), one transport is opened, once, and the port's     *)
(* reference count is N; when the N pumps then call disconnect(), once     *)
(* each, the transport stays open until the Nth call and is closed once,   *)
(* by that call.                                                           *)
C1_ConnectionSharing ==
    \A x \in Ports :
        (orderly[x] /\ Built(x) # {} /\ Built(x) \subseteq connected) =>
            LET N == Cardinality(Built(x))
                D == Cardinality(Built(x) \cap disconnected)
            IN  /\ opens[x] = 1
                /\ D < N =>
                     /\ closes[x] = 0
                     /\ x \in DOMAIN BUS_DEVICES
                     /\ BUS_DEVICES[x].pumps = N - D
                     /\ connOpen[BUS_DEVICES[x].conn]
                     /\ \A p \in Built(x) : connection[p] = BUS_DEVICES[x].conn
                /\ D = N =>
                     /\ closes[x] = 1
                     /\ x \notin DOMAIN BUS_DEVICES
                     /\ AllClosed(x)
                /\ (lastCall.op = "disconnect" /\ lastCall.port = x) =>
                     (lastCall.closed <=> D = N)

\* two pumps or more on one port were connected and have all disconnected,
\* the last of them closing the transport
C1_Witness ==
    \E x \in Ports :
        /\ orderly[x] /\ Cardinality(Built(x)) >= 2
        /\ Built(x) \subseteq connected /\ Built(x) \subseteq disconnected
        /\ closes[x] = 1 /\ lastCall.closed

(* C2: after any sequence of construct/connect/disconnect calls on a port, *)
(* a pump calling disconnect() more than once included, a disconnect()     *)
(* closes the transport only when every other pump constructed on the      *)
(* port has disconnected.                                                  *)
C2_ClosedOnlyByLastPump ==
    (lastCall.op = "disconnect" /\ lastCall.closed) =>
        Live(lastCall.port) \ {lastCall.pump} = {}

(* C3: reference-count invariant.  Every entry of BUS_DEVICES counts at    *)
(* least 1 and exactly the live pumps of its port, those constructed on it *)
(* and not yet disconnected.                                               *)
C3_RefCountIsLivePumps ==
    \A x \in DOMAIN BUS_DEVICES :
        /\ BUS_DEVICES[x].pumps >= 1
        /\ BUS_DEVICES[x].pumps = Cardinality(Live(x))

\* the port's reference count, 0 when it has no entry
RefCount(port) == IF port \in DOMAIN BUS_DEVICES THEN BUS_DEVICES[port].pumps ELSE 0

(* C4: binding and unbinding are atomic with respect to each other.  For   *)
(* every interleaving of constructor and disconnect() calls made from      *)
(* different threads by pumps of one port no update of the reference count *)
(* is lost: when no call is running the count is the binds less the        *)
(* unbinds, and a disconnect() has closed the transport exactly when it    *)
(* left no pump of the port undisconnected.                                *)
C4_NoLostUpdate ==
    Quiescent =>
        \A x \in Ports :
            /\ RefCount(x) = binds[x] - unbinds[x]
            /\ (lastCall.op = "disconnect" /\ lastCall.port = x) =>
                   (lastCall.closed <=> Live(x) = {})

-----------------------------------------------------------------------------
(* Claims about status and error decoding (under SpecDecode) *)

\* the position of step e in a call's trace, 0 when the call did not take it
StepAt(trace, e) == IF \E i \in 1..Len(trace) : trace[i] = e
                    THEN CHOOSE i \in 1..Len(trace) : trace[i] = e
                    ELSE 0

BaseInvoked == StepAt(dOut.out.trace, "LabDevice.parse_reply") > 0

\* the step of a parse_reply that looks at the status indicator
StatusStep == IF dDevice = "cadent3" THEN "check_errors" ELSE "response_code"

(* C5: Cadent 3 status decoding.  For every status byte 0..255 the check   *)
(* of the error field gives: no error when the 5 right-most bits are zero; *)
(* a device error carrying the table's message when they are a code of     *)
(* ERROR_CODES; an unknown-error reply error when they are no code of the  *)
(* table (0b01101, 0b01110, 0b11011..0b11111).  The 3 upper bits do not    *)
(* matter.                                                                 *)
C5_StatusDecoding ==
    (dDevice = "cadent3" /\ Called /\ dSent.status # <<>>) =>
        LET st == dSent.status[1]
            low == st % 32
            chk == dOut.check
        IN  /\ last_status = st
            /\ low = 0 => chk.exc = "none"
            /\ (low # 0 /\ low \in DOMAIN Cadent3_ERROR_CODES) =>
                   (chk.exc = "PLDeviceInternalError" /\ chk.msg = Cadent3_ERROR_CODES[low])
            /\ low \notin DOMAIN Cadent3_ERROR_CODES => chk.exc = "PLDeviceReplyError"
            /\ low \in {13, 14, 27, 28, 29, 30, 31} => chk.exc = "PLDeviceReplyError"
            /\ low = 7 => chk.msg = "device not initialized"
            /\ low = 9 => chk.msg = "syringe overload"
            /\ low = 26 => chk.msg = "syringe may go past home"

\* a status byte with upper bits set and an error field that is no code of
\* the table has been decoded
C5_Witness ==
    /\ dDevice = "cadent3" /\ Called /\ dSent.status # <<>>
    /\ dSent.status[1] >= 32
    /\ dSent.status[1] % 32 \notin DOMAIN Cadent3_ERROR_CODES
    /\ dOut.check.exc = "PLDeviceReplyError"

\* the reply's status indicator signals an error
SignalsError ==
    IF dDevice = "cadent3"
    THEN dSent.status # <<>> /\ dSent.status[1] % 32 # 0
    ELSE dSent.status \notin DOMAIN KDP3000_RESPONSE_CODES

(* C6: error decoding preempts payload decoding.  In the parse_reply of    *)
(* the Cadent 3 and of the Kern KDP3000 the base class's reply decoder is  *)
(* invoked only after the status indicator was checked and denoted no      *)
(* error; for a reply whose status indicator signals an error the payload  *)
(* is never decoded and no value is returned.                              *)
C6_ErrorPreemptsPayload ==
    Called =>
        /\ BaseInvoked =>
               /\ 0 < StepAt(dOut.out.trace, StatusStep)
               /\ StepAt(dOut.out.trace, StatusStep)
                      < StepAt(dOut.out.trace, "LabDevice.parse_reply")
               /\ dOut.check.exc = "none"
               /\ ~SignalsError
        /\ SignalsError => (~BaseInvoked /\ dOut.out.exc # "none" /\ dOut.out.vtype = "none")

\* a Cadent 3 reply with an error status and a payload behind it was handled
C6_Witness ==
    /\ dDevice = "cadent3" /\ Called /\ SignalsError
    /\ dSent.payload # <<>>
    /\ dOut.out.exc = "PLDeviceInternalError"

(* C7: for the Kern KDP3000, a reply whose response code is neither in     *)
(* RESPONSE_CODES nor in ERROR_CODES is raised as PLDeviceReplyError.      *)
C7_UnknownCodeIsReplyError ==
    (dDevice = "kdp3000" /\ Called /\ Len(Split(dBody, 32)) >= 2
     /\ dSent.status \notin DOMAIN KDP3000_RESPONSE_CODES
     /\ dSent.status \notin DOMAIN KDP3000_ERROR_CODES)
        => dOut.out.exc = "PLDeviceReplyError"

(* C8: malformed replies are surfaced as library errors.  For every raw    *)
(* reply parse_reply returns a value or raises one of the library's error  *)
(* types, also for a Cadent 3 reply with no status byte and for a Kern     *)
(* reply of fewer than two tokens.                                         *)
C8_MalformedIsLibraryError ==
    Called => dOut.out.exc \in LibraryErrors \cup {"none"}

-----------------------------------------------------------------------------
(* Claims about frame removal (under SpecStrip) *)

(* C9: frame removal is conditional.  The front of the reply is cut only   *)
(* when a prefix is given and the reply starts with it, the end only when  *)
(* a suffix is given and the reply ends with it; a reply that neither      *)
(* starts with the prefix nor ends with the suffix, or whose prefix and    *)
(* suffix are None, comes back unchanged; with a None prefix the front is  *)
(* kept, with a None suffix the end is kept.                               *)
FrontKept == StartsWith(sReply, sResult)
EndKept == EndsWith(sReply, sResult)
HasPrefix == sPrefix # None /\ StartsWith(sReply, sPrefix)
HasSuffix == sSuffix # None /\ EndsWith(sReply, sSuffix)

C9_StripperConditional ==
    sResult # NotRun =>
        /\ (~HasPrefix /\ ~HasSuffix) => sResult = sReply
        /\ ~HasPrefix => FrontKept
        /\ ~HasSuffix => EndKept
        /\ (HasPrefix /\ ~HasSuffix) => sResult = SliceFrom(sReply, Len(sPrefix))
        /\ (HasSuffix /\ ~HasPrefix /\ sSuffix # <<>>) =>
               sResult = SubSeq(sReply, 1, Len(sReply) - Len(sSuffix))

\* a reply that does not start with the given prefix but ends with the
\* given suffix has been stripped of the suffix alone
C9_Witness ==
    /\ sResult # NotRun
    /\ sPrefix # None /\ sPrefix # <<>> /\ ~StartsWith(sReply, sPrefix)
    /\ sSuffix # None /\ sSuffix # <<>> /\ EndsWith(sReply, sSuffix)
    /\ sResult # sReply

(* C10: framing round trip.  For every payload and every pair of framing   *)
(* strings, the empty ones included, stripping the framed reply gives the  *)
(* payload back.                                                           *)
C10_FramingRoundTrip ==
    (sResult # NotRun /\ sPayload # NoPayload) => sResult = sPayload

-----------------------------------------------------------------------------
(* Claims about the operations of one pump (under SpecOps) *)

\* "/1Q\r": the status query as is_idle() frames it
StatusQuery == <<47, 49, 81, 13>>

\* the frames of the call that are no status query
CommandFrames == SelectSeq(wire, LAMBDA f : f # StatusQuery)

\* the running (or last) call is one of the motion operations
MotionOps == {"move_plunger_absolute", "move_plunger_absolute_nobusy", "dispense",
              "withdraw", "set_valve_position"}

\* C11: an absolute plunger move to 3000 by a pump with switch address 1 and
\* autorun enabled is written as exactly "/1A3000R\r"; the reply
\* "/0@\x03\r\n" to it is stripped to "@", its status byte 64 has a zero
\* error field, and the call returns without an error.
C11_EndToEndMove ==
    (opCall.op = "move_plunger_absolute" /\ opCall.arg = 3000
        /\ opCall.before = RunTerminator) =>
        /\ \A i \in 1..Len(CommandFrames) :
               CommandFrames[i] = <<47, 49, 65, 51, 48, 48, 48, 82, 13>>
        /\ cmdReply = <<47, 48, 64, 3, 13, 10>> =>
               /\ stripper(cmdReply, Cadent3_reply_prefix, Cadent3_reply_terminator) = <<64>>
               /\ last_status = 64
               /\ BitAnd(last_status, 31) = 0
               /\ phase = "idle" /\ opOut.exc = "none"
               /\ Len(CommandFrames) = 1

C11_Witness ==
    /\ opCall.op = "move_plunger_absolute" /\ opCall.arg = 3000
    /\ opCall.before = RunTerminator
    /\ cmdReply = <<47, 48, 64, 3, 13, 10>>
    /\ CommandFrames = << <<47, 49, 65, 51, 48, 48, 48, 82, 13>> >>
    /\ phase = "idle" /\ opOut.exc = "none"

\* the calls that set a velocity of the pump
VelocityOps == {"set_start_velocity", "set_max_velocity", "set_stop_velocity", "set_speed"}

\* C12: a Cadent 3 velocity outside [1, 10000] and a Metrohm 781 speed outside
\* 1..15 fail with InvalidArgument and write nothing to the transport; a value
\* inside is accepted and its command is written.
C12_ValidationPrecedesIO ==
    /\ opCall.op \in VelocityOps =>
           IF opCall.arg \in 1..10000
           THEN opOut.exc # "InvalidArgument" /\ Len(wire) = 1
           ELSE opOut.exc = "InvalidArgument" /\ wire = <<>>
    /\ opCall.op = "metrohm781.set_speed" =>
           IF opCall.arg \in 1..15
           THEN opOut.exc = "none" /\ Len(wire) = 1
           ELSE opOut.exc = "InvalidArgument" /\ wire = <<>>
    /\ opOut.exc = "InvalidArgument" => wire = <<>>

C12_Witness ==
    /\ opCall.op = "set_max_velocity" /\ opCall.arg = 10001
    /\ opOut.exc = "InvalidArgument" /\ wire = <<>>

\* C13: move_plunger_absolute(position) with a position outside [0, 6000]
\* fails with InvalidArgument before any byte of the command is written: no
\* move command reaches the pump, and once the pump has reported Idle the call
\* ends with InvalidArgument.
C13_MoveRangeChecked ==
    (opCall.op = "move_plunger_absolute" /\ opCall.arg \notin 0..6000) =>
        /\ CommandFrames = <<>>
        /\ (phase = "idle" /\ observed = "Idle") => opOut.exc = "InvalidArgument"

\* the running (or last) call is one that waits for the pump
WaitingOps == MotionOps \cup {"wait_until_ready"}

\* C14: a wait ends as soon as a status query reports Idle, and fails with
\* Timeout after MaxAttempts polls none of which reported Idle; it never makes
\* more than MaxAttempts polls, whatever the pump answers.
C14_PollingTerminates ==
    opCall.op \in WaitingOps =>
        /\ attempts <= MaxAttempts
        /\ phase = "waiting" =>
               attempts < MaxAttempts /\ observed \in {"none", "Busy", "Disconnected"}
        /\ observed = "Idle" => phase # "waiting"
        /\ opOut.exc = "Timeout" =>
               /\ attempts = MaxAttempts
               /\ observed \in {"Busy", "Disconnected"}
               /\ wire = [i \in 1..MaxAttempts |-> StatusQuery]
        /\ (opCall.op = "wait_until_ready" /\ phase = "idle" /\ opOut.exc = "none") =>
               observed = "Idle" /\ wire = [i \in 1..attempts |-> StatusQuery]

C14_Witness ==
    /\ opCall.op = "wait_until_ready" /\ phase = "idle"
    /\ opOut.exc = "Timeout" /\ attempts = MaxAttempts

\* C15: a motion command is written only after a status query of the same
\* call reported Idle, as the frame right after that query; it is not written
\* when the last report was not Idle, nor when the wait ended in Timeout.
C15_ExecuteWhenReadyOrder ==
    opCall.op \in MotionOps =>
        /\ phase = "ready" => observed = "Idle"
        /\ CommandFrames # <<>> =>
               /\ observed = "Idle"
               /\ Len(wire) >= 2
               /\ wire[Len(wire) - 1] = StatusQuery
               /\ wire[Len(wire)] # StatusQuery
        /\ opOut.exc = "Timeout" => CommandFrames = <<>>

C15_Witness ==
    /\ opCall.op = "dispense" /\ phase = "idle" /\ observed = "Idle"
    /\ Len(CommandFrames) = 1 /\ Len(wire) = 3

\* C16: a status reply with a non-zero error field, received by is_idle()
\* while a call waits, ends the call at once with the device or reply error:
\* no further poll is made and the command is not issued.
C16_PollErrorsPropagate ==
    (opCall.op \in WaitingOps \cup {"is_idle"} /\ observed = "Errored") =>
        /\ phase = "idle"
        /\ opOut.exc \in {"PLDeviceInternalError", "PLDeviceReplyError"}
        /\ CommandFrames = <<>>
        /\ wire # <<>> /\ wire[Len(wire)] = StatusQuery
        /\ opCall.op \in WaitingOps => Len(wire) = attempts

C16_Witness ==
    /\ opCall.op = "move_plunger_absolute" /\ observed = "Errored"
    /\ phase = "idle" /\ opOut.exc = "PLDeviceReplyError" /\ Len(wire) = 2

\* C17: within one call of a motion operation the motion command is written
\* at most once; only the status query is written repeatedly.
C17_NoCommandRetry ==
    opCall.op \in MotionOps => Len(CommandFrames) <= 1

C17_Witness ==
    /\ opCall.op = "dispense" /\ phase = "idle" /\ opOut.exc = "PLConnectionError"
    /\ Len(CommandFrames) = 1 /\ Len(wire) = MaxAttempts + 1

\* the status and position queries
QueryOps == {"get_status", "is_idle", "is_initialized", "is_connected",
             "get_plunger_position", "get_valve_position", "get_velocities",
             "get_ramp_slope", "get_valve_type", "get_pump_resolution"}

\* C18: every frame a status or position query writes is framed with the
\* terminator "\r", not with the run suffix "R\r".
C18_QueriesSentWithoutRun ==
    opCall.op \in QueryOps =>
        \A i \in 1..Len(wire) :
            EndsWith(wire[i], NoRunTerminator) /\ ~EndsWith(wire[i], RunTerminator)

\* the queries that disable autorun
AutorunQueryOps == QueryOps \ {"get_valve_position"}

\* C19: when a query that disables autorun has ended, returning or raising,
\* command_terminator is what it was before the call.
C19_AutorunRestored ==
    (opCall.op \in AutorunQueryOps /\ phase = "idle") =>
        command_terminator = opCall.before

-----------------------------------------------------------------------------
(* Claims about the status operations, autorun and the valve (under SpecOps) *)

\* C23: is_initialized() returns True for an initialized pump also while the
\* pump is busy (bit 5 of the status byte clear, no error), and returns False
\* for a pump whose status reports error 7, "device not initialized".
C23_IsInitializedReportsInitialization ==
    (opCall.op = "is_initialized" /\ phase = "idle") =>
        /\ observed = "Busy" => opOut = Bool(TRUE)
        /\ (observed = "Errored" /\ last_status % 32 = 7) => opOut = Bool(FALSE)

\* C24: is_idle() returns True exactly when the status reply of this call has
\* bit 5 set and a zero error field, and returns False when the bit is clear
\* and when the query fails with a connection error, whatever status byte an
\* earlier exchange left.
C24_IsIdleFromThisReply ==
    (opCall.op = "is_idle" /\ phase = "idle") =>
        /\ (opOut = Bool(TRUE)) <=> (observed = "Idle")
        /\ observed \in {"Busy", "Disconnected"} => opOut = Bool(FALSE)

C24_Witness ==
    /\ opCall.op = "is_idle" /\ phase = "idle"
    /\ observed = "Disconnected"
    /\ last_status = 96
    /\ opOut = Bool(FALSE)

\* C27: command_terminator is always "R\r" or "\r"; the autorun getter is True
\* exactly for "R\r"; after autorun = True the getter gives True and after
\* autorun = False it gives False.
C27_AutorunRoundTrip ==
    /\ command_terminator \in {<<82, 13>>, <<13>>}
    /\ autorun(command_terminator) <=> (command_terminator = <<82, 13>>)
    /\ opCall.op = "autorun" => (autorun(command_terminator) <=> (opCall.arg = 1))

C27_Witness ==
    /\ opCall.op = "autorun" /\ opCall.arg = 0
    /\ opCall.before = <<82, 13>>
    /\ command_terminator = <<13>>
    /\ ~autorun(command_terminator)

\* the valve move command for the running call: "/1o", the direction modifier
\* and the position
ValveMoveBody ==
    <<47, 49, 111>>
        \o (IF opCall.dir = "CW" THEN <<43>> ELSE IF opCall.dir = "CCW" THEN <<45>> ELSE <<>>)
        \o (IF opCall.arg = 1 THEN <<49>> ELSE <<49, 53>>)

-----------------------------------------------------------------------------
(* Claims about the configuration operations (under SpecCfg) *)

\* C22: calibrate() returns True when the zero-point, max-point and save
\* commands were all acknowledged.
C22_CalibrateReturnsTrue ==
    (opCall.op = "kdp3000.calibrate" /\ observed = "Acknowledged") => opOut = Bool(TRUE)

\* C28: when initialize_device raises PLDeviceCommandError, no command has
\* been sent to the pump during the call.
C28_InitializeValidatesFirst ==
    (opCall.op = "initialize_device" /\ opOut.exc = "PLDeviceCommandError") => wire = <<>>

\* C29: when initialize_device or set_valve_type raises, autorun is still
\* enabled afterwards if it was enabled before the call.
C29_FailureKeepsAutorun ==
    (opCall.op \in {"initialize_device", "set_valve_type"}
        /\ phase = "idle" /\ opOut.exc \notin {"none", "not called"}
        /\ autorun(opCall.before)) => autorun(command_terminator)

-----------------------------------------------------------------------------
(* Claims about simulation mode (under SpecSim) *)

\* C21: no operation of a simulated pump, connect() and disconnect() and the
\* decorated status operations included, invokes a method of the transport.
C21_SimulationBypassesTransport ==
    \A p \in Pumps : simulation[p] => invoked[p] = {}

-----------------------------------------------------------------------------
(* Claims about senders on a shared connection (under SpecShare) *)

\* pump p is inside a command/reply exchange
InExchange(p) == pc[p] = "sent"

-----------------------------------------------------------------------------
(* Claims about the registry and failed or repeated calls (under SpecBus) *)

\* C25: a constructor call that fails with PLDeviceError leaves BUS_DEVICES as
\* it was before the call.
C25_FailedConstructorKeepsRegistry ==
    [][(lastCall'.op = "init" /\ lastCall'.exc = "PLDeviceError")
           => BUS_DEVICES' = BUS_DEVICES]_vars

\* C26: while the connection of a pump is open, BUS_DEVICES holds an entry for
\* the pump's port, so disconnect() never fails on a missing entry.
C26_OpenImpliesEntry ==
    /\ \A p \in Pumps :
           (pumpState[p] = "live" /\ connOpen[connection[p]])
               => pumpPort[p] \in DOMAIN BUS_DEVICES
    /\ lastCall.exc # "KeyError"

-----------------------------------------------------------------------------
(* Claims about transfer() and prime_pump() (under SpecXfer) *)

\* "/1o<port>R\r" and "/1A<position>R\r"
ValveFrame(port) == <<47, 49, 111>> \o Str(port) \o <<82, 13>>

PlungerFrame(position) == <<47, 49, 65>> \o Str(position) \o <<82, 13>>

IsPlungerFrame(f) == Len(f) > 5 /\ f[3] = 65

\* the target of an absolute plunger move, read off the frame written
Target(f) == IntOf(SubSeq(f, 4, Len(f) - 2))

\* the call has returned without an exception
ReturnedNormally == phase = "idle" /\ opOut.exc = "none"

\* C31: in transfer(port_from, port_to, volume) every plunger move to a
\* position above 0 comes right after a valve move to port_from and every
\* plunger move to 0 right after a valve move to port_to, the valve and plunger
\* commands are issued in cycles of valve-from, aspirate, valve-to, dispense,
\* and the call returns only after a last status poll that found the pump idle.
C31_TransferOrdering ==
    opCall.op = "transfer" =>
        /\ \A i \in 1..Len(CommandFrames) :
               LET f == CommandFrames[i] IN
               /\ (IsPlungerFrame(f) /\ Target(f) > 0)
                      => (i > 1 /\ CommandFrames[i - 1] = ValveFrame(opCall.arg.port_from))
               /\ f = PlungerFrame(0)
                      => (i > 1 /\ CommandFrames[i - 1] = ValveFrame(opCall.arg.port_to))
               /\ i % 4 = 1 => f = ValveFrame(opCall.arg.port_from)
               /\ i % 4 = 2 => (IsPlungerFrame(f) /\ Target(f) > 0)
               /\ i % 4 = 3 => f = ValveFrame(opCall.arg.port_to)
               /\ i % 4 = 0 => f = PlungerFrame(0)
        /\ ReturnedNormally =>
               /\ wire # <<>>
               /\ wire[Len(wire)] = StatusQuery
               /\ observed = "Idle"
               /\ Len(CommandFrames) % 4 = 0

C31_Witness ==
    /\ opCall.op = "transfer" /\ ReturnedNormally
    /\ opCall.arg = [increments |-> 6001, port_from |-> 1, port_to |-> 2]
    /\ CommandFrames = <<ValveFrame(1), PlungerFrame(6000), ValveFrame(2), PlungerFrame(0),
                         ValveFrame(1), PlungerFrame(1), ValveFrame(2), PlungerFrame(0)>>

\* the strokes aspirated by the call so far
Strokes ==
    LET moves == SelectSeq(CommandFrames, LAMBDA f : IsPlungerFrame(f) /\ Target(f) > 0)
    IN  [i \in 1..Len(moves) |-> Target(moves[i])]

RECURSIVE SeqSum(_)
SeqSum(q) == IF q = <<>> THEN 0 ELSE Head(q) + SeqSum(Tail(q))

\* C32: a transfer of n >= 0 increments aspirates floor(n / 6000) strokes of
\* 6000 steps and then, if n mod 6000 is not 0, one stroke of n mod 6000
\* steps: the strokes add up to n, none is above 6000, and for n = 0 no valve
\* or plunger command is sent.
C32_TransferVolume ==
    (opCall.op = "transfer" /\ opCall.arg.increments >= 0) =>
        LET n == opCall.arg.increments IN
        /\ \A i \in 1..Len(Strokes) : Strokes[i] <= 6000
        /\ SeqSum(Strokes) <= n
        /\ n = 0 => CommandFrames = <<>>
        /\ ReturnedNormally =>
               /\ SeqSum(Strokes) = n
               /\ Len(Strokes) = (n \div 6000) + (IF n % 6000 # 0 THEN 1 ELSE 0)
               /\ \A i \in 1..Len(Strokes) :
                      Strokes[i] = IF i <= n \div 6000 THEN 6000 ELSE n % 6000

C32_Witness ==
    /\ opCall.op = "transfer" /\ ReturnedNormally
    /\ opCall.arg.increments = 6001
    /\ Strokes = <<6000, 1>>

\* C33: prime_pump(port, cycles = c, increments = k) issues one valve move to
\* port and then 1 + 2c absolute plunger moves to 0, k, 0, k, 0, ...: the last
\* plunger command is a move to 0 and no valve command follows a plunger move.
C33_PrimeSequence ==
    opCall.op = "prime_pump" =>
        LET c == opCall.arg.cycles
            k == opCall.arg.increments
        IN
        /\ Len(CommandFrames) <= 2 + 2 * c
        /\ \A i \in 1..Len(CommandFrames) :
               CommandFrames[i] = IF i = 1 THEN ValveFrame(opCall.arg.port)
                                  ELSE IF i % 2 = 0 THEN PlungerFrame(0)
                                  ELSE PlungerFrame(k)
        /\ ReturnedNormally =>
               /\ Len(CommandFrames) = 2 + 2 * c
               /\ CommandFrames[Len(CommandFrames)] = PlungerFrame(0)

C33_Witness ==
    /\ opCall.op = "prime_pump" /\ ReturnedNormally
    /\ opCall.arg = [port |-> 15, increments |-> 2000, cycles |-> 1]
    /\ CommandFrames = <<ValveFrame(15), PlungerFrame(0), PlungerFrame(2000), PlungerFrame(0)>>

=============================================================================
